---------------------------- MODULE Spec2Model ----------------------------
(***************************************************************************)
(* Verification model of the website-share catalog: the data loader and    *)
(* its validators (utils/dataLoader.ts), the catalog store of App.vue and  *)
(* the search function (composables/useSearch.ts).                         *)
(***************************************************************************)
EXTENDS Integers, Sequences, FiniteSets, TLC

(***************************************************************************)
(* Bounds of the model.                                                    *)
(***************************************************************************)
\* longest sites array of a generated document
MaxSites == 2
\* number of places in which a generated document departs from a well-formed one
MaxVariants == 2
\* number of loadData calls of a behaviour
MaxLoads == 3
\* longest search query, in characters
MaxQueryLen == 3

(***************************************************************************)
(* JSON values, as response.json() yields them.  Every value is a record   *)
(* tagged with its kind; a missing property reads as Undefined.            *)
(***************************************************************************)
Undefined == [t |-> "undefined"]

JNull == [t |-> "null"]

\* the number whole + tenths/10
JNum(whole, tenths) == [t |-> "number", v |-> <<whole, tenths>>]

JStr(s) == [t |-> "string", v |-> s]

JArr(seq) == [t |-> "array", v |-> seq]

\* f maps property names to values
JObj(f) == [t |-> "object", v |-> f]

\* the object of the properties of f that are not undefined
MkObj(f) == JObj([k \in {p \in DOMAIN f : f[p].t # "undefined"} |-> f[k]])

\* JavaScript typeof
TypeOf(x) ==
    IF x.t \in {"null", "array", "object"} THEN "object" ELSE x.t

\* JavaScript !x
Falsy(x) ==
    \/ x.t \in {"undefined", "null"}
    \/ x.t = "number" /\ x.v = <<0, 0>>
    \/ x.t = "string" /\ x.v = ""

\* obj[k] of a value that passed the typeof 'object' test
Prop(x, k) ==
    IF x.t = "object" /\ k \in DOMAIN x.v THEN x.v[k] ELSE Undefined

IsArray(x) == x.t = "array"

\* x === s for a string literal s
StrictEq(x, s) == x.t = "string" /\ x.v = s

IsInteger(x) == x.t = "number" /\ x.v[2] = 0

(***************************************************************************)
(* utils/dataLoader.ts: validators.  A validation result is                *)
(* [valid |-> TRUE] or [valid |-> FALSE, error |-> e]; an error is a       *)
(* record holding the literal text and, for the template strings, the      *)
(* interpolated parts (the Chinese texts are given in English).            *)
(***************************************************************************)
Ok == [valid |-> TRUE]

Fail(e) == [valid |-> FALSE, error |-> e]

requiredStringFields == <<"title", "cover", "url", "description">>

\* the loop over requiredStringFields, from position k
RECURSIVE CheckStringFields(_, _, _)
CheckStringFields(siteObj, k, rest) ==
    IF k > Len(requiredStringFields) THEN rest
    ELSE IF TypeOf(Prop(siteObj, requiredStringFields[k])) # "string"
         THEN Fail([text |-> "field must be a string", field |-> requiredStringFields[k]])
         ELSE CheckStringFields(siteObj, k + 1, rest)

\* validateSiteMetadata without the typeof test of id
validateSiteMetadataWithoutIdCheck(site) ==
    IF Falsy(site) \/ TypeOf(site) # "object"
    THEN Fail([text |-> "site data must be an object"])
    ELSE CheckStringFields(site, 1,
         IF ~IsArray(Prop(site, "tags"))
         THEN Fail([text |-> "field tags must be an array"])
         ELSE IF ~(\A j \in DOMAIN Prop(site, "tags").v :
                      TypeOf(Prop(site, "tags").v[j]) = "string")
         THEN Fail([text |-> "every element of field tags must be a string"])
         ELSE IF Prop(site, "content").t # "undefined"
                 /\ TypeOf(Prop(site, "content")) # "string"
         THEN Fail([text |-> "field content must be a string"])
         ELSE IF /\ Prop(site, "contentType").t # "undefined"
                 /\ ~StrictEq(Prop(site, "contentType"), "text")
                 /\ ~StrictEq(Prop(site, "contentType"), "file")
         THEN Fail([text |-> "field contentType must be text or file"])
         ELSE Ok)

validateSiteMetadata(site) ==
    IF Falsy(site) \/ TypeOf(site) # "object"
    THEN Fail([text |-> "site data must be an object"])
    ELSE IF TypeOf(Prop(site, "id")) # "number"
    THEN Fail([text |-> "field id must be a number"])
    ELSE CheckStringFields(site, 1,
         IF ~IsArray(Prop(site, "tags"))
         THEN Fail([text |-> "field tags must be an array"])
         ELSE IF ~(\A j \in DOMAIN Prop(site, "tags").v :
                      TypeOf(Prop(site, "tags").v[j]) = "string")
         THEN Fail([text |-> "every element of field tags must be a string"])
         ELSE IF Prop(site, "content").t # "undefined"
                 /\ TypeOf(Prop(site, "content")) # "string"
         THEN Fail([text |-> "field content must be a string"])
         ELSE IF /\ Prop(site, "contentType").t # "undefined"
                 /\ ~StrictEq(Prop(site, "contentType"), "text")
                 /\ ~StrictEq(Prop(site, "contentType"), "file")
         THEN Fail([text |-> "field contentType must be text or file"])
         ELSE Ok)

\* validateSiteConfig with truthiness tests in place of the typeof tests
validateSiteConfigRejectingEmpty(config) ==
    IF Falsy(config) \/ TypeOf(config) # "object"
    THEN Fail([text |-> "config data must be an object"])
    ELSE IF Falsy(Prop(config, "siteTitle")) \/ TypeOf(Prop(config, "siteTitle")) # "string"
    THEN Fail([text |-> "field siteTitle must be a string"])
    ELSE IF Falsy(Prop(config, "adminContact")) \/ TypeOf(Prop(config, "adminContact")) # "string"
    THEN Fail([text |-> "field adminContact must be a string"])
    ELSE Ok

validateSiteConfig(config) ==
    IF Falsy(config) \/ TypeOf(config) # "object"
    THEN Fail([text |-> "config data must be an object"])
    ELSE IF TypeOf(Prop(config, "siteTitle")) # "string"
    THEN Fail([text |-> "field siteTitle must be a string"])
    ELSE IF TypeOf(Prop(config, "adminContact")) # "string"
    THEN Fail([text |-> "field adminContact must be a string"])
    ELSE Ok

\* ValidateSitesFrom with the loop running from the last entry down
RECURSIVE ValidateSitesFromLast(_, _)
ValidateSitesFromLast(sitesArr, k) ==
    IF k > Len(sitesArr) THEN Ok
    ELSE LET later == ValidateSitesFromLast(sitesArr, k + 1)
             siteResult == validateSiteMetadata(sitesArr[k])
         IN  IF ~later.valid THEN later
             ELSE IF ~siteResult.valid
             THEN Fail([text |-> "site validation failed", index |-> k - 1,
                        cause |-> siteResult.error])
             ELSE Ok

\* the for loop of validateSiteDataFile, from (1-based) position k; the
\* reported index is the 0-based i of the source
RECURSIVE ValidateSitesFrom(_, _)
ValidateSitesFrom(sitesArr, k) ==
    IF k > Len(sitesArr) THEN Ok
    ELSE LET siteResult == validateSiteMetadata(sitesArr[k])
         IN  IF ~siteResult.valid
             THEN Fail([text |-> "site validation failed", index |-> k - 1,
                        cause |-> siteResult.error])
             ELSE ValidateSitesFrom(sitesArr, k + 1)

validateSiteDataFile(data) ==
    IF Falsy(data) \/ TypeOf(data) # "object"
    THEN Fail([text |-> "data file must be an object"])
    ELSE LET configResult == validateSiteConfig(Prop(data, "config"))
         IN  IF ~configResult.valid
             THEN Fail([text |-> "config validation failed", cause |-> configResult.error])
             ELSE IF ~IsArray(Prop(data, "sites"))
             THEN Fail([text |-> "sites must be an array"])
             ELSE ValidateSitesFrom(Prop(data, "sites").v, 1)

(***************************************************************************)
(* utils/dataLoader.ts: loadSiteData.  What fetch(path) and                *)
(* response.json() do is the environment's choice, given as the record     *)
(*   [fetch |-> "rejected", err |-> [isError, message]]          or        *)
(*   [fetch |-> "resolved", status, statusText, body]                      *)
(* with body [json |-> "rejected", reason |-> r] or                        *)
(* [json |-> "resolved", value |-> d].                                     *)
(***************************************************************************)
\* no field argument given
NoField == ""

createDataLoadError(type, message, field) ==
    IF type = "VALIDATION_ERROR" /\ field # NoField
    THEN [type |-> type, field |-> field, message |-> message]
    ELSE [type |-> type, message |-> message]

\* response.ok
ResponseOk(resp) == resp.status \in 200..299

\* loadSiteData without the response.ok test
loadSiteDataIgnoringStatus(resp) ==
    IF resp.fetch = "rejected"
    THEN [success |-> FALSE,
          error |-> createDataLoadError("NETWORK_ERROR",
                      [text |-> "network request failed",
                       detail |-> IF resp.err.isError THEN resp.err.message
                                  ELSE "unknown network error"],
                      NoField)]
    ELSE IF resp.body.json = "rejected"
    THEN [success |-> FALSE,
          error |-> createDataLoadError("PARSE_ERROR",
                      [text |-> "JSON parse failed, bad data format"], NoField)]
    ELSE LET validationResult == validateSiteDataFile(resp.body.value)
         IN  IF ~validationResult.valid
             THEN [success |-> FALSE,
                   error |-> createDataLoadError("VALIDATION_ERROR",
                               validationResult.error, "data")]
             ELSE [success |-> TRUE, data |-> resp.body.value]

loadSiteData(resp) ==
    IF resp.fetch = "rejected"
    THEN [success |-> FALSE,
          error |-> createDataLoadError("NETWORK_ERROR",
                      [text |-> "network request failed",
                       detail |-> IF resp.err.isError THEN resp.err.message
                                  ELSE "unknown network error"],
                      NoField)]
    ELSE IF ~ResponseOk(resp)
    THEN [success |-> FALSE,
          error |-> createDataLoadError("NETWORK_ERROR",
                      [text |-> "HTTP error", status |-> resp.status,
                       statusText |-> resp.statusText],
                      NoField)]
    ELSE IF resp.body.json = "rejected"
    THEN [success |-> FALSE,
          error |-> createDataLoadError("PARSE_ERROR",
                      [text |-> "JSON parse failed, bad data format"], NoField)]
    ELSE LET validationResult == validateSiteDataFile(resp.body.value)
         IN  IF ~validationResult.valid
             THEN [success |-> FALSE,
                   error |-> createDataLoadError("VALIDATION_ERROR",
                               validationResult.error, "data")]
             ELSE [success |-> TRUE, data |-> resp.body.value]

getErrorMessage(error) ==
    CASE error.type = "NETWORK_ERROR" ->
            [text |-> "data load failed, check the network connection"]
      [] error.type = "PARSE_ERROR" ->
            [text |-> "bad data format, contact the administrator"]
      [] error.type = "VALIDATION_ERROR" ->
            [text |-> "data validation failed", field |-> error.field]
      [] OTHER -> [text |-> "unknown error"]

(***************************************************************************)
(* The documents a data source may serve: a well-formed document of        *)
(* n <= MaxSites entries, changed in at most MaxVariants places.  A change *)
(* [at, i, val] puts val at the place `at` (of entry i, for the places of  *)
(* an entry); val = Undefined removes the property.                        *)
(***************************************************************************)
TopVariants == {JNull, JNum(7, 0), JArr(<<>>)}

ConfigVariants == {Undefined, JArr(<<>>)}

SiteTitleVariants == {Undefined, JNum(7, 0), JStr("")}

AdminContactVariants == {JNull, JStr("")}

SitesVariants == {Undefined, JObj(<<>>)}

EntryVariants == {JNull}

EntryFieldVariants ==
    [id          |-> {JNum(1, 5), JStr("1")},
     title       |-> {Undefined},
     cover       |-> {JNum(7, 0)},
     url         |-> {Undefined},
     description |-> {JNull},
     tags        |-> {JArr(<<JStr("a")>>), JStr("a"), JArr(<<JStr("a"), JNum(7, 0)>>)},
     content     |-> {JStr("c"), JNum(7, 0)},
     contentType |-> {JStr("file"), JStr("html")}]

Changes(n) ==
    {[at |-> "top", i |-> 0, val |-> x] : x \in TopVariants}
    \cup {[at |-> "config", i |-> 0, val |-> x] : x \in ConfigVariants}
    \cup {[at |-> "siteTitle", i |-> 0, val |-> x] : x \in SiteTitleVariants}
    \cup {[at |-> "adminContact", i |-> 0, val |-> x] : x \in AdminContactVariants}
    \cup {[at |-> "sites", i |-> 0, val |-> x] : x \in SitesVariants}
    \cup {[at |-> "entry", i |-> j, val |-> x] : j \in 1..n, x \in EntryVariants}
    \cup UNION {{[at |-> f, i |-> j, val |-> x] : j \in 1..n, x \in EntryFieldVariants[f]} :
                    f \in DOMAIN EntryFieldVariants}

\* the sets of at most k changes
RECURSIVE ChangeSets(_, _)
ChangeSets(n, k) ==
    IF k = 0 THEN {{}}
    ELSE LET smaller == ChangeSets(n, k - 1)
         IN  smaller \cup {cs \cup {c} : cs \in smaller, c \in Changes(n)}

\* the value at a place: that of a change of cs there, else the well-formed one
At(cs, at, i, wellFormed) ==
    LET here == {c \in cs : c.at = at /\ c.i = i}
    IN  IF here = {} THEN wellFormed ELSE (CHOOSE c \in here : TRUE).val

EntryOf(cs, i) ==
    At(cs, "entry", i,
       MkObj([id          |-> At(cs, "id", i, JNum(i, 0)),
              title       |-> At(cs, "title", i, JStr("t")),
              cover       |-> At(cs, "cover", i, JStr("")),
              url         |-> At(cs, "url", i, JStr("u")),
              description |-> At(cs, "description", i, JStr("d")),
              tags        |-> At(cs, "tags", i, JArr(<<>>)),
              content     |-> At(cs, "content", i, Undefined),
              contentType |-> At(cs, "contentType", i, Undefined)]))

DocOf(n, cs) ==
    At(cs, "top", 0,
       MkObj([config |-> At(cs, "config", 0,
                            MkObj([siteTitle    |-> At(cs, "siteTitle", 0, JStr("T")),
                                   adminContact |-> At(cs, "adminContact", 0, JStr("a@b.com"))])),
              sites  |-> At(cs, "sites", 0, JArr([i \in 1..n |-> EntryOf(cs, i)]))]))

\* the documents of at most MaxSites entries with at most k changes, the
\* changes of a document of n entries being at its entries 1..n
DocsWithin(k) ==
    {DocOf(p[1], p[2]) :
        p \in {q \in (0..MaxSites) \X ChangeSets(MaxSites, k) :
                  \A c \in q[2] : c.i <= q[1]}}

Docs == DocsWithin(MaxVariants)

HttpStatuses ==
    {[status |-> 200, statusText |-> "OK"],
     [status |-> 404, statusText |-> "Not Found"],
     [status |-> 500, statusText |-> "Internal Server Error"]}

\* why response.json() rejects: the body is not JSON, or reading it failed
JsonRejections == {"SyntaxError", "TypeError"}

\* the outcomes of fetch(path) followed by response.json(), the parsed
\* documents being those of docs
ResponsesOf(docs) ==
    {[fetch |-> "rejected", err |-> [isError |-> TRUE, message |-> "Failed to fetch"]]}
    \cup {[fetch |-> "resolved", status |-> h.status, statusText |-> h.statusText,
           body |-> [json |-> "rejected", reason |-> r]] :
              h \in HttpStatuses, r \in JsonRejections}
    \cup {[fetch |-> "resolved", status |-> h.status, statusText |-> h.statusText,
           body |-> [json |-> "resolved", value |-> d]] :
              h \in HttpStatuses, d \in {DocOf(0, {}), JNull}}
    \cup {[fetch |-> "resolved", status |-> 200, statusText |-> "OK",
           body |-> [json |-> "resolved", value |-> d]] : d \in docs}

\* the outcomes given to the loader called alone
Responses == ResponsesOf(Docs)

\* the outcomes given to the loads of the application
AppResponses == ResponsesOf(DocsWithin(1))

(***************************************************************************)
(* State.                                                                  *)
(***************************************************************************)
VARIABLES
    siteConfig,     \* App.vue: ref siteConfig
    sites,          \* App.vue: ref sites
    isLoading,      \* App.vue: ref isLoading
    errorMessage,   \* App.vue: ref errorMessage (JNull for null)
    mounted,        \* App.vue: onMounted has run
    inflight,       \* App.vue: the loadData calls suspended at their await
    loadCount,      \* App.vue: the number of loadData calls made so far
    response,       \* dataLoader: the outcome of fetch and json() given to a call
    loadResult,     \* dataLoader: what loadSiteData returned for response
    validation,     \* dataLoader: what validateSiteDataFile returned for the body
    searchQuery,    \* useSearch: the query, a sequence of characters
    searchData,     \* useSearch: the entries given to a search
    searchSitesResult,   \* useSearch: what searchSites returned
    performSearchResult  \* useSearch: what performSearch returned

appVars == <<siteConfig, sites, isLoading, errorMessage, mounted, inflight, loadCount>>

loaderVars == <<response, loadResult, validation>>

searchVars == <<searchQuery, searchData, searchSitesResult, performSearchResult>>

VARIABLES
    groupInput,     \* SiteCardGrid: props.sites
    groupByTag,     \* SiteCardGrid: props.groupByTag
    groupedSitesResult,  \* SiteCardGrid: the value of the computed groupedSites
    extractTagsResult    \* dataLoader: what extractTags returned for the same entries

groupVars == <<groupInput, groupByTag, groupedSitesResult, extractTagsResult>>

VARIABLES
    urlInput,       \* urlUtils: the url given to a call
    cleanResult,    \* urlUtils: what cleanTrackingParams returned for urlInput
    hasTrackingResult    \* urlUtils: what hasTrackingParams returned for urlInput

urlVars == <<urlInput, cleanResult, hasTrackingResult>>

VARIABLES
    siteUrl,        \* SiteDetailPage: props.site.url
    opened          \* SiteDetailPage: the url the browser was last told to open

detailVars == <<siteUrl, opened>>

VARIABLES
    localStorage,       \* the platform's store: the item of each key, JNull for none
    localStorageWorks,  \* the platform's store takes calls, where it might throw
    localStorageRoom,   \* the room left in the platform's store: "ample", or
                        \* "scant": enough for the probe item, not for a large one
    memoryStorage,      \* storage.ts: the Map memoryStorage
    themePreference,    \* useTheme: ref themePreference
    systemPrefersDark,  \* useTheme: ref systemPrefersDark
    isInitialized,      \* useTheme: isInitialized
    darkClass,          \* useTheme: the class dark is on the document element
    themeRead,          \* storage.ts: what getThemePreference returned to a direct call
    themeCall           \* useTheme: isDarkMode as the latest call, one of toggleTheme, found it

storageVars == <<localStorage, localStorageWorks, localStorageRoom, memoryStorage>>

VARIABLES
    lastSet,        \* storage.ts: the last direct call of safeSetItem
    lastGet         \* storage.ts: the direct call of safeGetItem made since

storageCallVars == <<lastSet, lastGet>>

VARIABLES
    hasConfirmed,          \* useDisclaimer: ref hasConfirmed
    isModalVisible,        \* useDisclaimer: ref isModalVisible
    disclaimerInitialized, \* useDisclaimer: isInitialized
    confirmLog             \* useDisclaimer: whether confirmDisclaimer has run in any
                           \* session (ever), in this one (thisSession), and with
                           \* its write taken by the platform's store (persisted)

disclaimerVars == <<hasConfirmed, isModalVisible, disclaimerInitialized, confirmLog>>

VARIABLES
    images,         \* ImagePreview: props.images
    activeIndex,    \* ImagePreview: ref activeIndex
    imageLoaded,    \* ImagePreview: ref imageLoaded
    navigated,      \* ImagePreview: the indices emitted with navigate, in order
    previewCall         \* ImagePreview: the latest call of prevImage, nextImage or
                        \* goToImage, and activeIndex as the call found it

previewVars == <<images, activeIndex, imageLoaded, navigated, previewCall>>

VARIABLES
    propsSite,         \* SiteDetailPage: props.site, its fields content and contentType
    detailMounted,     \* SiteDetailPage: the component is mounted
    markdownContent,   \* SiteDetailPage: ref markdownContent
    isLoadingContent,  \* SiteDetailPage: ref isLoadingContent
    contentError,      \* SiteDetailPage: ref contentError
    contentFetches     \* SiteDetailPage: the addresses of the calls of loadContent
                       \* that wait for fetch, in the order of the calls

contentVars == <<propsSite, detailMounted, markdownContent, isLoadingContent, contentError,
                 contentFetches>>

\* the state of the components modelled apart from the preferences
pageVars == <<previewVars, contentVars>>

themeVars == <<themePreference, systemPrefersDark, isInitialized, darkClass, themeRead,
               themeCall>>

\* the state of the components and utilities other than the catalog store,
\* the loader and the search
viewVars == <<groupVars, urlVars, detailVars, storageVars, themeVars,
              storageCallVars, disclaimerVars, pageVars>>

vars == <<siteConfig, sites, isLoading, errorMessage, mounted, inflight, loadCount,
          response, loadResult, validation,
          searchQuery, searchData, searchSitesResult, performSearchResult,
          viewVars>>

\* no call made yet
Pending == [pending |-> TRUE]

\* the initial values of the refs siteConfig and sites
DefaultStore ==
    [config |-> JObj([siteTitle |-> JStr("Site Collection"), adminContact |-> JStr("")]),
     sites  |-> JArr(<<>>)]

AppInit ==
    /\ siteConfig = DefaultStore.config
    /\ sites = DefaultStore.sites
    /\ isLoading = TRUE
    /\ errorMessage = JNull
    /\ mounted = FALSE
    /\ inflight = <<>>
    /\ loadCount = 0

LoaderIdle ==
    /\ response = [fetch |-> "none"]
    /\ loadResult = Pending
    /\ validation = Pending

SearchIdle ==
    /\ searchQuery = <<>>
    /\ searchData = <<>>
    /\ searchSitesResult = Pending
    /\ performSearchResult = Pending

GroupIdle ==
    /\ groupInput = <<>>
    /\ groupByTag = TRUE
    /\ groupedSitesResult = Pending
    /\ extractTagsResult = Pending

UrlIdle ==
    /\ urlInput = [kind |-> "text", text |-> ""]
    /\ cleanResult = Pending
    /\ hasTrackingResult = Pending

DetailIdle ==
    /\ siteUrl = [kind |-> "text", text |-> ""]
    /\ opened = Pending

STORAGE_KEYS ==
    [THEME_PREFERENCE |-> "theme-preference",
     DISCLAIMER_CONFIRMED |-> "disclaimer-confirmed"]

StorageKeys == {STORAGE_KEYS.THEME_PREFERENCE, STORAGE_KEYS.DISCLAIMER_CONFIRMED}

\* a store that holds no item
EmptyStorage == [key \in StorageKeys |-> JNull]

StorageIdle ==
    /\ localStorage = EmptyStorage
    /\ localStorageWorks = TRUE
    /\ localStorageRoom = "ample"
    /\ memoryStorage = EmptyStorage

\* the module state of useTheme as the module is loaded
ThemeLoaded ==
    /\ themePreference = "system"
    /\ systemPrefersDark = FALSE
    /\ isInitialized = FALSE
    /\ darkClass = FALSE
    /\ themeRead = Pending
    /\ themeCall = Pending

StorageCallIdle ==
    /\ lastSet = Pending
    /\ lastGet = Pending

PreviewIdle ==
    /\ images = <<>>
    /\ activeIndex = 0
    /\ imageLoaded = FALSE
    /\ navigated = <<>>
    /\ previewCall = Pending

\* SiteDetailPage before it is given a site
ContentIdle ==
    /\ propsSite = [content |-> Undefined, contentType |-> Undefined]
    /\ detailMounted = FALSE
    /\ markdownContent = ""
    /\ isLoadingContent = FALSE
    /\ contentError = ""
    /\ contentFetches = <<>>

PageIdle == PreviewIdle /\ ContentIdle

\* the module state of useDisclaimer as the module is loaded
DisclaimerLoaded ==
    /\ hasConfirmed = FALSE
    /\ isModalVisible = FALSE
    /\ disclaimerInitialized = FALSE

NeverConfirmed == [ever |-> FALSE, thisSession |-> FALSE, persisted |-> FALSE]

\* the preferences in a session that makes no use of them
PrefsIdle ==
    /\ StorageIdle
    /\ ThemeLoaded
    /\ StorageCallIdle
    /\ DisclaimerLoaded
    /\ confirmLog = NeverConfirmed

ViewIdle == GroupIdle /\ UrlIdle /\ DetailIdle /\ PrefsIdle /\ PageIdle

(***************************************************************************)
(* The loader called on each response (specification SpecLoader).          *)
(***************************************************************************)
HasJson(resp) ==
    resp.fetch = "resolved" /\ ResponseOk(resp) /\ resp.body.json = "resolved"

InitLoader ==
    /\ AppInit
    /\ SearchIdle
    /\ ViewIdle
    /\ response \in Responses
    /\ loadResult = Pending
    /\ validation = Pending

CallLoadSiteData ==
    /\ loadResult = Pending
    /\ loadResult' = loadSiteData(response)
    /\ UNCHANGED <<response, validation>>
    /\ UNCHANGED appVars
    /\ UNCHANGED searchVars
    /\ UNCHANGED viewVars

CallValidateSiteDataFile ==
    /\ HasJson(response)
    /\ validation = Pending
    /\ validation' = validateSiteDataFile(response.body.value)
    /\ UNCHANGED <<response, loadResult>>
    /\ UNCHANGED appVars
    /\ UNCHANGED searchVars
    /\ UNCHANGED viewVars

NextLoader == CallLoadSiteData \/ CallValidateSiteDataFile

SpecLoader == InitLoader /\ [][NextLoader]_vars

(***************************************************************************)
(* App.vue: loadData.  A call runs to its await (LoadDataStart), the       *)
(* promise of loadSiteData settles (LoadSiteDataSettle), and the call      *)
(* resumes (LoadDataResume).  Each suspended call is a record              *)
(* [result, before]: the settled result (Pending until then) and the store *)
(* as the call found it.                                                   *)
(***************************************************************************)
Store == [config |-> siteConfig, sites |-> sites]

RemoveAt(seq, l) == [j \in 1..(Len(seq) - 1) |-> IF j < l THEN seq[j] ELSE seq[j + 1]]

\* LoadDataStart without `errorMessage.value = null`
LoadDataStartKeepingError ==
    /\ loadCount < MaxLoads
    /\ loadCount' = loadCount + 1
    /\ isLoading' = TRUE
    /\ errorMessage' = errorMessage
    /\ inflight' = Append(inflight, [result |-> Pending, before |-> Store])
    /\ UNCHANGED <<siteConfig, sites>>

\* loadData up to `await loadSiteData()`
LoadDataStart ==
    /\ loadCount < MaxLoads
    /\ loadCount' = loadCount + 1
    /\ isLoading' = TRUE
    /\ errorMessage' = JNull
    /\ inflight' = Append(inflight, [result |-> Pending, before |-> Store])
    /\ UNCHANGED <<siteConfig, sites>>

\* StoreAfter with an else branch that empties the store
StoreAfterClearingOnFailure(result) ==
    IF result.success
    THEN [config |-> Prop(result.data, "config"), sites |-> Prop(result.data, "sites")]
    ELSE DefaultStore

\* StoreAfter without the assignment to siteConfig
StoreAfterSitesOnly(result) ==
    IF result.success
    THEN [config |-> siteConfig, sites |-> Prop(result.data, "sites")]
    ELSE Store

\* the store after `if (result.success) ... else ...`
StoreAfter(result) ==
    IF result.success
    THEN [config |-> Prop(result.data, "config"), sites |-> Prop(result.data, "sites")]
    ELSE Store

ErrorMessageAfter(result) ==
    IF result.success THEN errorMessage ELSE getErrorMessage(result.error)

\* onMounted
Mount ==
    /\ ~mounted
    /\ mounted' = TRUE
    /\ LoadDataStart
    /\ UNCHANGED loaderVars
    /\ UNCHANGED searchVars
    /\ UNCHANGED viewVars

\* retryLoad behind a button that is rendered whenever an error message is set
RetryLoadWhileLoading ==
    /\ mounted
    /\ errorMessage # JNull \/ isLoading
    /\ LoadDataStart
    /\ UNCHANGED <<mounted>>
    /\ UNCHANGED loaderVars
    /\ UNCHANGED searchVars
    /\ UNCHANGED viewVars

\* click on the retry button, rendered when v-if="isLoading" fails and
\* v-else-if="errorMessage" holds
RetryLoad ==
    /\ mounted
    /\ ~isLoading
    /\ errorMessage # JNull
    /\ LoadDataStart
    /\ UNCHANGED <<mounted>>
    /\ UNCHANGED loaderVars
    /\ UNCHANGED searchVars
    /\ UNCHANGED viewVars

\* fetch and json() settle and loadSiteData returns
LoadSiteDataSettle ==
    \E l \in DOMAIN inflight :
        /\ inflight[l].result = Pending
        /\ \E resp \in AppResponses :
              inflight' = [inflight EXCEPT ![l].result = loadSiteData(resp)]
        /\ UNCHANGED <<siteConfig, sites, isLoading, errorMessage, mounted, loadCount>>
        /\ UNCHANGED loaderVars
        /\ UNCHANGED searchVars
    /\ UNCHANGED viewVars

\* loadData from its await to its end
LoadDataResume ==
    \E l \in DOMAIN inflight :
        /\ inflight[l].result # Pending
        /\ siteConfig' = StoreAfter(inflight[l].result).config
        /\ sites' = StoreAfter(inflight[l].result).sites
        /\ errorMessage' = ErrorMessageAfter(inflight[l].result)
        /\ isLoading' = FALSE
        /\ inflight' = RemoveAt(inflight, l)
        /\ UNCHANGED <<mounted, loadCount>>
        /\ UNCHANGED loaderVars
        /\ UNCHANGED searchVars
    /\ UNCHANGED viewVars

Init == AppInit /\ LoaderIdle /\ SearchIdle /\ ViewIdle

Next == Mount \/ RetryLoad \/ LoadSiteDataSettle \/ LoadDataResume

Spec == Init /\ [][Next]_vars

(***************************************************************************)
(* loadData called again and again, each call after the previous one has   *)
(* returned (specification SpecLoads).                                     *)
(***************************************************************************)
CallLoadData ==
    /\ inflight = <<>>
    /\ LoadDataStart
    /\ UNCHANGED <<mounted>>
    /\ UNCHANGED loaderVars
    /\ UNCHANGED searchVars
    /\ UNCHANGED viewVars

NextLoads == CallLoadData \/ LoadSiteDataSettle \/ LoadDataResume

SpecLoads == Init /\ [][NextLoads]_vars

(***************************************************************************)
(* composables/useSearch.ts: searchSites and performSearch.  A string is a *)
(* sequence of characters.  What fuse.search returns is the environment's  *)
(* choice: some of the entries, in some order, among them every entry one  *)
(* of whose searched texts holds the pattern as it stands.                 *)
(***************************************************************************)
WhiteSpace == {" ", "\t"}

Chars == WhiteSpace \cup {"a", "b"}

\* String.prototype.trim
RECURSIVE TrimStart(_)
TrimStart(str) ==
    IF str # <<>> /\ Head(str) \in WhiteSpace THEN TrimStart(Tail(str)) ELSE str

RECURSIVE TrimEnd(_)
TrimEnd(str) ==
    IF str # <<>> /\ str[Len(str)] \in WhiteSpace
    THEN TrimEnd(SubSeq(str, 1, Len(str) - 1)) ELSE str

Trim(str) == TrimEnd(TrimStart(str))

\* the sequences of distinct positions of data, of length n
RECURSIVE Picks(_, _)
Picks(data, n) ==
    IF n = 0 THEN {<<>>}
    ELSE {Append(p, j) : p \in Picks(data, n - 1), j \in DOMAIN data}

\* FUSE_OPTIONS without its title key
FUSE_OPTIONS_WithoutTitleKey ==
    [keys |-> <<[name |-> "description", weight |-> 3],
                [name |-> "tags", weight |-> 3]>>,
     threshold |-> 4,
     ignoreLocation |-> TRUE,
     includeScore |-> TRUE,
     minMatchCharLength |-> 1,
     useExtendedSearch |-> FALSE]

\* the options given to Fuse, weights and threshold in tenths
FUSE_OPTIONS ==
    [keys |-> <<[name |-> "title", weight |-> 4],
                [name |-> "description", weight |-> 3],
                [name |-> "tags", weight |-> 3]>>,
     threshold |-> 4,
     ignoreLocation |-> TRUE,
     includeScore |-> TRUE,
     minMatchCharLength |-> 1,
     useExtendedSearch |-> FALSE]

\* the texts Fuse reads under a key of an entry: the string, or the strings
\* of the array
KeyTexts(item, key) ==
    LET f == Prop(item, key)
    IN  IF IsArray(f) THEN [j \in DOMAIN f.v |-> f.v[j].v] ELSE <<f.v>>

\* text holds pattern as a run of consecutive characters
Contains(text, pattern) ==
    \E s \in 0..(Len(text) - Len(pattern)) :
        SubSeq(text, s + 1, s + Len(pattern)) = pattern

\* a searched text of item holds pattern: a match of score 0
ExactMatch(item, pattern, options) ==
    \E k \in DOMAIN options.keys :
        /\ options.keys[k].weight > 0
        /\ \E j \in DOMAIN KeyTexts(item, options.keys[k].name) :
              Contains(KeyTexts(item, options.keys[k].name)[j], pattern)

\* the positions of data Fuse returns whatever else it returns: a score of 0
\* is within every threshold, and with ignoreLocation the place of the match
\* adds nothing to the score
FuseGuaranteed(data, pattern, options) ==
    IF /\ options.threshold >= 0
       /\ options.ignoreLocation
       /\ ~options.useExtendedSearch
       /\ Len(pattern) >= options.minMatchCharLength
    THEN {i \in DOMAIN data : ExactMatch(data[i], pattern, options)}
    ELSE {}

\* the item sequences new Fuse(data, FUSE_OPTIONS).search(pattern)
\*     .map(result => result.item) may be
FuseOutcomes(data, pattern) ==
    {[j \in DOMAIN p |-> data[p[j]]] :
        p \in {q \in UNION {Picks(data, n) : n \in 0..Len(data)} :
                  /\ \A a, b \in DOMAIN q : a # b => q[a] # q[b]
                  /\ \A i \in FuseGuaranteed(data, pattern, FUSE_OPTIONS) :
                        \E a \in DOMAIN q : q[a] = i}}

\* searchSites with the emptiness test made on the untrimmed query
searchSitesWithoutTrim(sitesArg, query, fuseItems) ==
    IF query = <<>> THEN sitesArg
    ELSE IF Len(sitesArg) = 0 THEN <<>>
    ELSE fuseItems

searchSites(sitesArg, query, fuseItems) ==
    LET trimmedQuery == Trim(query)
    IN  IF trimmedQuery = <<>> THEN sitesArg
        ELSE IF Len(sitesArg) = 0 THEN <<>>
        ELSE fuseItems

\* performSearch returning the catalog of the enclosing useSearch (sites.value)
\* where it should return its argument
performSearchOfCatalog(query, data, fuseItems) ==
    LET trimmedQuery == Trim(query)
    IN  IF trimmedQuery = <<>> THEN sites.v
        ELSE IF Len(data) = 0 THEN <<>>
        ELSE fuseItems

performSearch(query, data, fuseItems) ==
    LET trimmedQuery == Trim(query)
    IN  IF trimmedQuery = <<>> THEN data
        ELSE IF Len(data) = 0 THEN <<>>
        ELSE fuseItems

(***************************************************************************)
(* The search functions called on each query and entry sequence            *)
(* (specification SpecSearch).                                             *)
(***************************************************************************)
Queries == UNION {[1..n -> Chars] : n \in 0..MaxQueryLen}

\* an entry of type SiteMetadata, its searched texts sequences of characters
SearchEntry(i, title) ==
    JObj([id |-> JNum(i, 0), title |-> JStr(title), cover |-> JStr(""),
          url |-> JStr("u"), description |-> JStr(<<"b", "b">>),
          tags |-> JArr(<<JStr(<<"b">>)>>)])

\* the titles of the entries searched for query: the query itself and a
\* title that is no query
TitlesFor(query) == {query, <<"b">>}

\* the entry sequences searched for query
Catalogs(query) ==
    UNION {{[i \in 1..n |-> SearchEntry(i, t[i])] : t \in [1..n -> TitlesFor(query)]} :
              n \in 0..MaxSites}

InitSearch ==
    /\ siteConfig = DefaultStore.config
    /\ sites = JArr(<<SearchEntry(1, <<"a">>), SearchEntry(2, <<"b">>)>>)
    /\ isLoading = FALSE
    /\ errorMessage = JNull
    /\ mounted = TRUE
    /\ inflight = <<>>
    /\ loadCount = 1
    /\ LoaderIdle
    /\ ViewIdle
    /\ searchQuery \in Queries
    /\ searchData \in Catalogs(searchQuery)
    /\ searchSitesResult = Pending
    /\ performSearchResult = Pending

CallSearchSites ==
    /\ searchSitesResult = Pending
    /\ \E fuseItems \in FuseOutcomes(searchData, Trim(searchQuery)) :
          searchSitesResult' = [returned |-> searchSites(searchData, searchQuery, fuseItems)]
    /\ UNCHANGED <<searchQuery, searchData, performSearchResult>>
    /\ UNCHANGED appVars
    /\ UNCHANGED loaderVars
    /\ UNCHANGED viewVars

CallPerformSearch ==
    /\ performSearchResult = Pending
    /\ \E fuseItems \in FuseOutcomes(searchData, Trim(searchQuery)) :
          performSearchResult' = [returned |-> performSearch(searchQuery, searchData, fuseItems)]
    /\ UNCHANGED <<searchQuery, searchData, searchSitesResult>>
    /\ UNCHANGED appVars
    /\ UNCHANGED loaderVars
    /\ UNCHANGED viewVars

NextSearch == CallSearchSites \/ CallPerformSearch

SpecSearch == InitSearch /\ [][NextSearch]_vars

(***************************************************************************)
(* components/SiteCardGrid.vue: the computed groupedSites.  A Map is the   *)
(* sequence of its entries [key, sites] in insertion order.  The key of    *)
(* the single group of the ungrouped view is a Chinese word in the source, *)
(* given in English here.                                                  *)
(***************************************************************************)
MaxGroupSites == 3

AllKey == "All"

MapHas(groups, key) == \E g \in DOMAIN groups : groups[g].key = key

\* groups.set(key, []) for a key the map does not hold, at the front
MapSetNewFirst(groups, key) == <<[key |-> key, sites |-> <<>>]>> \o groups

\* groups.set(key, []) for a key the map does not hold
MapSetNew(groups, key) == Append(groups, [key |-> key, sites |-> <<>>])

\* groups.get(key).push(site)
MapPush(groups, key, site) ==
    [g \in DOMAIN groups |->
        IF groups[g].key = key
        THEN [groups[g] EXCEPT !.sites = Append(@, site)]
        ELSE groups[g]]

\* the body of the forEach with every tag of the site taken for a key
GroupSiteByEveryTag(groups, site) ==
    LET tags == Prop(site, "tags")
        put[n \in 0..Len(tags.v)] ==
            IF n = 0 THEN groups
            ELSE LET key == tags.v[n].v
                 IN  MapPush(IF MapHas(put[n - 1], key) THEN put[n - 1]
                             ELSE MapSetNew(put[n - 1], key), key, site)
    IN  put[Len(tags.v)]

\* the body of the forEach
GroupSite(groups, site) ==
    LET tags == Prop(site, "tags")
    IN  IF ~Falsy(tags) /\ Len(tags.v) > 0
        THEN LET primaryTag == tags.v[1].v
             IN  MapPush(IF MapHas(groups, primaryTag) THEN groups
                         ELSE MapSetNew(groups, primaryTag), primaryTag, site)
        ELSE groups

\* groups after props.sites.forEach has visited the first n sites
RECURSIVE GroupsAfter(_, _)
GroupsAfter(sitesArg, n) ==
    IF n = 0 THEN <<>>
    ELSE GroupSite(GroupsAfter(sitesArg, n - 1), sitesArg[n])

\* groupedSites with the untagged entries left out of the ungrouped view
groupedSitesOfTagged(sitesArg, byTag) ==
    IF ~byTag
    THEN <<[key |-> AllKey,
            sites |-> SelectSeq(sitesArg, LAMBDA e : Len(Prop(e, "tags").v) > 0)]>>
    ELSE GroupsAfter(sitesArg, Len(sitesArg))

groupedSites(sitesArg, byTag) ==
    IF ~byTag THEN <<[key |-> AllKey, sites |-> sitesArg]>>
    ELSE GroupsAfter(sitesArg, Len(sitesArg))

(***************************************************************************)
(* utils/dataLoader.ts: extractTags.  A Set is the sequence of its         *)
(* elements in the order they were added.                                  *)
(***************************************************************************)
\* tagSet.add(tag)
SetAdd(tagSet, tag) ==
    IF \E j \in DOMAIN tagSet : tagSet[j] = tag THEN tagSet ELSE Append(tagSet, tag)

\* tagSet after the loop has visited the first n sites
RECURSIVE TagSetAfter(_, _)
TagSetAfter(sitesArg, n) ==
    IF n = 0 THEN <<>>
    ELSE LET tags == Prop(sitesArg[n], "tags")
         IN  IF ~Falsy(tags) /\ Len(tags.v) > 0
             THEN SetAdd(TagSetAfter(sitesArg, n - 1), tags.v[1].v)
             ELSE TagSetAfter(sitesArg, n - 1)

\* extractTags adding every tag of every site
extractTagsOfEveryTag(sitesArg) ==
    LET flat[n \in 0..Len(sitesArg)] ==
            IF n = 0 THEN <<>>
            ELSE flat[n - 1] \o [j \in DOMAIN Prop(sitesArg[n], "tags").v |->
                                    Prop(sitesArg[n], "tags").v[j].v]
        added[k \in 0..Len(flat[Len(sitesArg)])] ==
            IF k = 0 THEN <<>> ELSE SetAdd(added[k - 1], flat[Len(sitesArg)][k])
    IN  added[Len(flat[Len(sitesArg)])]

extractTags(sitesArg) == TagSetAfter(sitesArg, Len(sitesArg))

(***************************************************************************)
(* groupedSites evaluated for each entry sequence and each value of        *)
(* groupByTag (specification SpecGroup).                                   *)
(***************************************************************************)
\* the tags arrays of the entries given to the grid
TagLists == {<<>>, <<"a">>, <<"b">>, <<"a", "c">>}

GroupEntry(i, tagList) ==
    JObj([id |-> JNum(i, 0), title |-> JStr("t"), cover |-> JStr(""),
          url |-> JStr("u"), description |-> JStr("d"),
          tags |-> JArr([j \in DOMAIN tagList |-> JStr(tagList[j])])])

GroupInputs ==
    UNION {{[i \in 1..n |-> GroupEntry(i, t[i])] : t \in [1..n -> TagLists]} :
              n \in 0..MaxGroupSites}

InitGroup ==
    /\ AppInit
    /\ LoaderIdle
    /\ SearchIdle
    /\ UrlIdle
    /\ DetailIdle
    /\ PrefsIdle
    /\ PageIdle
    /\ groupInput \in GroupInputs
    /\ groupByTag \in BOOLEAN
    /\ groupedSitesResult = Pending
    /\ extractTagsResult = Pending

EvalGroupedSites ==
    /\ groupedSitesResult = Pending
    /\ groupedSitesResult' = [returned |-> groupedSites(groupInput, groupByTag)]
    /\ UNCHANGED <<groupInput, groupByTag, extractTagsResult>>
    /\ UNCHANGED appVars
    /\ UNCHANGED loaderVars
    /\ UNCHANGED searchVars
    /\ UNCHANGED <<urlVars, detailVars, storageVars, themeVars>>
    /\ UNCHANGED <<storageCallVars, disclaimerVars, pageVars>>

\* extractTags called with the entries the grid is given
CallExtractTags ==
    /\ extractTagsResult = Pending
    /\ extractTagsResult' = [returned |-> extractTags(groupInput)]
    /\ UNCHANGED <<groupInput, groupByTag, groupedSitesResult>>
    /\ UNCHANGED appVars
    /\ UNCHANGED loaderVars
    /\ UNCHANGED searchVars
    /\ UNCHANGED <<urlVars, detailVars, storageVars, themeVars>>
    /\ UNCHANGED <<storageCallVars, disclaimerVars, pageVars>>

NextGroup == EvalGroupedSites \/ CallExtractTags

SpecGroup == InitGroup /\ [][NextGroup]_vars

(***************************************************************************)
(* utils/urlUtils.ts.  A string that new URL() accepts is the record of    *)
(* its parts as they are spelled: origin, path, the pieces of the query    *)
(* between the "&" (no piece: no "?"), fragment.  Any other string is the  *)
(* record of its text.  new URL(), URLSearchParams and toString() are      *)
(* those of the URL standard: the parser lower-cases scheme and host and   *)
(* gives an empty path of an http(s) URL the path "/"; the query is read   *)
(* as application/x-www-form-urlencoded; delete() removes every pair of    *)
(* the name and then writes the list back as the query, no query at all    *)
(* when the list is empty.                                                 *)
(***************************************************************************)
MaxParams == 2

\* the deny-list, in the order of the source
TRACKING_PARAMS ==
    <<"utm_source", "utm_medium", "utm_campaign", "utm_term",
      "utm_content", "utm_id", "utm_source_platform",
      "utm_creative_format", "utm_marketing_tactic", "fbclid", "gclid",
      "gclsrc", "dclid", "msclkid", "twclid", "igshid", "mc_cid", "mc_eid",
      "ref", "ref_src", "ref_url", "source", "affiliate", "aff_id",
      "campaign_id", "ad_id", "click_id", "_ga", "_gl", "yclid",
      "wickedid", "wicked_source", "spm", "scm", "pvid", "algo_pvid",
      "algo_expid", "btsid", "ws_ab_test", "share_source", "share_medium">>

Text(str) == [kind |-> "text", text |-> str]

Url(origin, path, query, fragment) ==
    [kind |-> "url", origin |-> origin, path |-> path, query |-> query,
     fragment |-> fragment]

\* a piece of a query: name, "=" if eq, value
Piece(name, eq, value) == [name |-> name, eq |-> eq, value |-> value]

\* new URL(url) returns, where it might throw a TypeError
Parses(url) == url.kind = "url"

\* percent-decoding of a name or value of a query, "+" read as a space
Decoded(str) ==
    CASE str = "utm%5Fsource" -> "utm_source"
      [] str = "b%2Bc" -> "b+c"
      [] str = "b+c" -> "b c"
      [] str = "b%20c" -> "b c"
      [] OTHER -> str

\* the urlencoded serializer writing names and values as they are
EncodedAsIs(str) == str

\* percent-encoding of a name or value by the urlencoded serializer
Encoded(str) ==
    CASE str = "b+c" -> "b%2Bc"
      [] str = "b c" -> "b+c"
      [] OTHER -> str

\* the urlencoded parser: the empty pieces are dropped, a piece without "="
\* has the empty value
RECURSIVE ParseQuery(_)
ParseQuery(query) ==
    IF query = <<>> THEN <<>>
    ELSE LET piece == Head(query)
         IN  IF piece.name = "" /\ ~piece.eq
             THEN ParseQuery(Tail(query))
             ELSE <<[name |-> Decoded(piece.name), value |-> Decoded(piece.value)]>>
                      \o ParseQuery(Tail(query))

\* the urlencoded serializer
SerializeQuery(list) ==
    [j \in DOMAIN list |-> Piece(Encoded(list[j].name), TRUE, Encoded(list[j].value))]

\* scheme and host as the parser keeps them
LowerCased(origin) == IF origin = "HTTPS://A.COM" THEN "https://a.com" ELSE origin

\* new URL(url), for a url that parses: the URL record and its searchParams
NewURL(url) ==
    [origin |-> LowerCased(url.origin),
     path |-> IF url.path = "" THEN "/" ELSE url.path,
     query |-> url.query,
     searchParams |-> ParseQuery(url.query),
     fragment |-> url.fragment]

\* urlObj.searchParams.delete(param) removing the first pair of the name only
URLSearchParamsDeleteFirst(urlObj, param) ==
    LET list == urlObj.searchParams
        hits == {j \in DOMAIN list : list[j].name = param}
        first == CHOOSE j \in hits : \A k \in hits : j <= k
        kept == IF hits = {} THEN list
                ELSE SubSeq(list, 1, first - 1) \o SubSeq(list, first + 1, Len(list))
    IN  [urlObj EXCEPT !.searchParams = kept, !.query = SerializeQuery(kept)]

\* urlObj.searchParams.delete(param)
URLSearchParamsDelete(urlObj, param) ==
    LET kept == SelectSeq(urlObj.searchParams, LAMBDA pair : pair.name # param)
    IN  [urlObj EXCEPT !.searchParams = kept, !.query = SerializeQuery(kept)]

\* urlObj.searchParams.has(param)
URLSearchParamsHas(urlObj, param) ==
    \E j \in DOMAIN urlObj.searchParams : urlObj.searchParams[j].name = param

\* urlObj.toString()
UrlToString(urlObj) == Url(urlObj.origin, urlObj.path, urlObj.query, urlObj.fragment)

\* urlObj after TRACKING_PARAMS.forEach has visited the first n names
RECURSIVE AfterDeletes(_, _)
AfterDeletes(urlObj, n) ==
    IF n = 0 THEN urlObj
    ELSE URLSearchParamsDelete(AfterDeletes(urlObj, n - 1), TRACKING_PARAMS[n])

\* cleanTrackingParams with a catch block that returns the empty string
cleanTrackingParamsEmptyOnFailure(url) ==
    IF Parses(url)
    THEN UrlToString(AfterDeletes(NewURL(url), Len(TRACKING_PARAMS)))
    ELSE Text("")

cleanTrackingParams(url) ==
    IF Parses(url)
    THEN UrlToString(AfterDeletes(NewURL(url), Len(TRACKING_PARAMS)))
    ELSE url

\* hasTrackingParams looking for the names as they are spelled in the query
hasTrackingParamsAsSpelled(url) ==
    IF Parses(url)
    THEN \E k \in DOMAIN TRACKING_PARAMS :
            \E j \in DOMAIN url.query : url.query[j].name = TRACKING_PARAMS[k]
    ELSE FALSE

hasTrackingParams(url) ==
    IF Parses(url)
    THEN \E k \in DOMAIN TRACKING_PARAMS :
            URLSearchParamsHas(NewURL(url), TRACKING_PARAMS[k])
    ELSE FALSE

\* the url window.open is given by openCleanUrl
openCleanUrl(url) == cleanTrackingParams(url)

(***************************************************************************)
(* cleanTrackingParams and hasTrackingParams called on each string         *)
(* (specification SpecUrl).                                                *)
(***************************************************************************)
Origins == {"https://a.com", "HTTPS://A.COM"}

Paths == {"", "/", "/p"}

Fragments == {"", "#f"}

\* the pieces of the queries: names on the deny-list and off it, a name of
\* the list in capitals, a name of the list percent-encoded, a piece without
\* "=", the empty piece, values the serializer spells otherwise
Pieces ==
    {Piece("utm_source", TRUE, "x"), Piece("ref", TRUE, "x"), Piece("keep", TRUE, "1"),
     Piece("UTM_SOURCE", TRUE, "x"), Piece("keep", FALSE, ""), Piece("", FALSE, ""),
     Piece("utm%5Fsource", TRUE, "x"), Piece("q", TRUE, "b%20c"),
     Piece("q", TRUE, "b%2Bc")}

QueryStrings == UNION {[1..n -> Pieces] : n \in 0..MaxParams}

ValidUrls ==
    {Url(o, p, q, f) : o \in Origins, p \in Paths, q \in QueryStrings, f \in Fragments}

\* strings new URL() throws on
InvalidUrls ==
    {Text(""), Text("not a url"), Text("/p?utm_source=x"), Text("a.com?utm_source=x")}

UrlStrings == ValidUrls \cup InvalidUrls

InitUrl ==
    /\ AppInit
    /\ LoaderIdle
    /\ SearchIdle
    /\ GroupIdle
    /\ DetailIdle
    /\ PrefsIdle
    /\ PageIdle
    /\ urlInput \in UrlStrings
    /\ cleanResult = Pending
    /\ hasTrackingResult = Pending

CallCleanTrackingParams ==
    /\ cleanResult = Pending
    /\ cleanResult' = [returned |-> cleanTrackingParams(urlInput)]
    /\ UNCHANGED <<urlInput, hasTrackingResult>>
    /\ UNCHANGED <<appVars, loaderVars, searchVars, groupVars, detailVars>>
    /\ UNCHANGED <<storageVars, themeVars>>
    /\ UNCHANGED <<storageCallVars, disclaimerVars, pageVars>>

CallHasTrackingParams ==
    /\ hasTrackingResult = Pending
    /\ hasTrackingResult' = [returned |-> hasTrackingParams(urlInput)]
    /\ UNCHANGED <<urlInput, cleanResult>>
    /\ UNCHANGED <<appVars, loaderVars, searchVars, groupVars, detailVars>>
    /\ UNCHANGED <<storageVars, themeVars>>
    /\ UNCHANGED <<storageCallVars, disclaimerVars, pageVars>>

NextUrl == CallCleanTrackingParams \/ CallHasTrackingParams

SpecUrl == InitUrl /\ [][NextUrl]_vars

(***************************************************************************)
(* components/SiteDetailPage.vue: the two ways the page opens the site     *)
(* (specification SpecDetail).                                             *)
(***************************************************************************)
InitDetail ==
    /\ AppInit
    /\ LoaderIdle
    /\ SearchIdle
    /\ GroupIdle
    /\ UrlIdle
    /\ PrefsIdle
    /\ PageIdle
    /\ siteUrl \in UrlStrings
    /\ opened = Pending

\* click on the visit button: handleVisit
HandleVisit ==
    /\ opened' = [target |-> openCleanUrl(siteUrl), by |-> "window.open"]
    /\ UNCHANGED siteUrl
    /\ UNCHANGED <<appVars, loaderVars, searchVars, groupVars, urlVars>>
    /\ UNCHANGED <<storageVars, themeVars>>
    /\ UNCHANGED <<storageCallVars, disclaimerVars, pageVars>>

\* click on the site-address link <a :href="site.url" target="_blank">
FollowSiteUrlLink ==
    /\ opened' = [target |-> siteUrl, by |-> "a.site-url"]
    /\ UNCHANGED siteUrl
    /\ UNCHANGED <<appVars, loaderVars, searchVars, groupVars, urlVars>>
    /\ UNCHANGED <<storageVars, themeVars>>
    /\ UNCHANGED <<storageCallVars, disclaimerVars, pageVars>>

NextDetail == HandleVisit \/ FollowSiteUrlLink

SpecDetail == InitDetail /\ [][NextDetail]_vars

(***************************************************************************)
(* utils/storage.ts and composables/useTheme.ts.  While localStorageWorks  *)
(* is false every call of localStorage throws, so isLocalStorageAvailable  *)
(* returns false.  While it is true and localStorageRoom is "scant", the   *)
(* probe of isLocalStorageAvailable, an item of 32 characters, is taken    *)
(* and removed, but setItem of a larger item throws QuotaExceededError.    *)
(* An item is a JSON string, no item is JNull.                             *)
(***************************************************************************)
isLocalStorageAvailable == localStorageWorks

\* a value that with its key is longer than the probe item
LargeValue == "a value of more characters than the probe"

\* localStorage.setItem(key, value) throws
SetItemThrows(key, value) ==
    \/ ~localStorageWorks
    \/ localStorageRoom = "scant" /\ value = LargeValue

safeGetItem(key) ==
    IF isLocalStorageAvailable THEN localStorage[key] ELSE memoryStorage[key]

\* the two stores after safeSetItem(key, value)
StorageAfterSet(key, value) ==
    IF isLocalStorageAvailable /\ ~SetItemThrows(key, value)
    THEN [localStorage |-> [localStorage EXCEPT ![key] = JStr(value)],
          memoryStorage |-> memoryStorage]
    ELSE [localStorage |-> localStorage,
          memoryStorage |-> [memoryStorage EXCEPT ![key] = JStr(value)]]

\* what safeSetItem returns
safeSetItem(key, value) == isLocalStorageAvailable /\ ~SetItemThrows(key, value)

\* getThemePreference returning whatever item it finds
getThemePreferenceUnchecked ==
    LET value == safeGetItem(STORAGE_KEYS.THEME_PREFERENCE)
    IN  IF value # JNull THEN value.v ELSE "system"

getThemePreference ==
    LET value == safeGetItem(STORAGE_KEYS.THEME_PREFERENCE)
    IN  IF \/ StrictEq(value, "light")
           \/ StrictEq(value, "dark")
           \/ StrictEq(value, "system")
        THEN value.v
        ELSE "system"

\* the type ThemePreference
ThemePreferences == {"light", "dark", "system"}

\* the computed isDarkMode, for the values of the two refs
isDarkMode(preference, prefersDark) ==
    IF preference = "system" THEN prefersDark ELSE preference = "dark"

\* setTheme, the watcher of isDarkMode included
setTheme(preference) ==
    /\ themePreference' = preference
    /\ localStorage' = StorageAfterSet(STORAGE_KEYS.THEME_PREFERENCE, preference).localStorage
    /\ memoryStorage' = StorageAfterSet(STORAGE_KEYS.THEME_PREFERENCE, preference).memoryStorage
    /\ darkClass' = isDarkMode(preference, systemPrefersDark)
    /\ UNCHANGED <<localStorageWorks, localStorageRoom, systemPrefersDark,
                   isInitialized, themeRead>>

(***************************************************************************)
(* The theme of a session (specification SpecTheme).  The session finds    *)
(* in the platform's store what earlier sessions, or anything else with    *)
(* access to the store, left under the key.                                *)
(***************************************************************************)
\* the items a session may find under the key of the theme preference
FoundItems ==
    {JNull, JStr("light"), JStr("dark"), JStr("system"), JStr("blue"), JStr("")}

InitTheme ==
    /\ AppInit
    /\ LoaderIdle
    /\ SearchIdle
    /\ GroupIdle
    /\ UrlIdle
    /\ DetailIdle
    /\ ThemeLoaded
    /\ StorageCallIdle
    /\ DisclaimerLoaded
    /\ confirmLog = NeverConfirmed
    /\ PageIdle
    /\ localStorageRoom = "ample"
    /\ \E item \in FoundItems :
          localStorage = [EmptyStorage EXCEPT ![STORAGE_KEYS.THEME_PREFERENCE] = item]
    /\ localStorageWorks \in BOOLEAN
    /\ memoryStorage = EmptyStorage

\* the state that neither the preferences nor the platform's store touch
OtherThanPrefs ==
    <<appVars, loaderVars, searchVars, groupVars, urlVars, detailVars, pageVars>>

OtherThanTheme == <<OtherThanPrefs, storageCallVars, disclaimerVars>>

\* initTheme, called by onMounted
initTheme ==
    /\ ~isInitialized
    /\ isInitialized' = TRUE
    /\ themePreference' = getThemePreference
    /\ \E matches \in BOOLEAN :
          /\ systemPrefersDark' = matches
          /\ darkClass' = isDarkMode(getThemePreference, matches)
    /\ themeCall' = Pending
    /\ UNCHANGED <<storageVars, themeRead>>
    /\ UNCHANGED OtherThanTheme

\* setTheme called by a component
CallSetTheme ==
    /\ isInitialized
    /\ \E preference \in ThemePreferences : setTheme(preference)
    /\ themeCall' = Pending
    /\ UNCHANGED OtherThanTheme

\* toggleTheme choosing by the preference alone
toggleThemeByPreference ==
    /\ isInitialized
    /\ setTheme(IF themePreference = "dark" THEN "light" ELSE "dark")
    /\ themeCall' = [wasDark |-> isDarkMode(themePreference, systemPrefersDark)]
    /\ UNCHANGED OtherThanTheme

toggleTheme ==
    /\ isInitialized
    /\ setTheme(IF isDarkMode(themePreference, systemPrefersDark) THEN "light" ELSE "dark")
    /\ themeCall' = [wasDark |-> isDarkMode(themePreference, systemPrefersDark)]
    /\ UNCHANGED OtherThanTheme

cycleTheme ==
    /\ isInitialized
    /\ setTheme(CASE themePreference = "light" -> "dark"
                   [] themePreference = "dark" -> "system"
                   [] OTHER -> "light")
    /\ themeCall' = Pending
    /\ UNCHANGED OtherThanTheme

\* the change event of the media query, the watcher of isDarkMode included
handleSystemThemeChange ==
    /\ isInitialized
    /\ systemPrefersDark' = ~systemPrefersDark
    /\ darkClass' = isDarkMode(themePreference, ~systemPrefersDark)
    /\ themeCall' = Pending
    /\ UNCHANGED <<storageVars, themePreference, isInitialized, themeRead>>
    /\ UNCHANGED OtherThanTheme

\* the platform's store starts or stops taking calls
LocalStorageChange ==
    /\ localStorageWorks' = ~localStorageWorks
    /\ lastSet' = IF lastSet = Pending THEN lastSet ELSE [lastSet EXCEPT !.changed = TRUE]
    /\ UNCHANGED <<localStorage, localStorageRoom, memoryStorage, lastGet, themeVars>>
    /\ UNCHANGED disclaimerVars
    /\ UNCHANGED OtherThanPrefs

\* getThemePreference called on its own
CallGetThemePreference ==
    /\ themeRead = Pending
    /\ themeRead' = [returned |-> getThemePreference,
                      item |-> safeGetItem(STORAGE_KEYS.THEME_PREFERENCE)]
    /\ UNCHANGED <<storageVars, themePreference, systemPrefersDark, isInitialized, darkClass,
                   themeCall>>
    /\ UNCHANGED OtherThanTheme

NextTheme ==
    \/ initTheme
    \/ CallSetTheme
    \/ toggleTheme
    \/ cycleTheme
    \/ handleSystemThemeChange
    \/ LocalStorageChange
    \/ CallGetThemePreference

SpecTheme == InitTheme /\ [][NextTheme]_vars

(***************************************************************************)
(* safeSetItem and safeGetItem called one after the other while the        *)
(* platform's store comes and goes (specification SpecStorage).            *)
(***************************************************************************)
\* the values written: those of the two preferences and a large one
SetValues == {"dark", "true", LargeValue}

InitStorage ==
    /\ AppInit
    /\ LoaderIdle
    /\ SearchIdle
    /\ GroupIdle
    /\ UrlIdle
    /\ DetailIdle
    /\ ThemeLoaded
    /\ StorageCallIdle
    /\ DisclaimerLoaded
    /\ confirmLog = NeverConfirmed
    /\ PageIdle
    /\ \E item \in FoundItems :
          localStorage = [EmptyStorage EXCEPT ![STORAGE_KEYS.THEME_PREFERENCE] = item]
    /\ localStorageWorks \in BOOLEAN
    /\ localStorageRoom \in {"ample", "scant"}
    /\ memoryStorage = EmptyStorage

CallSafeSetItem ==
    /\ \E key \in StorageKeys, value \in SetValues :
          /\ localStorage' = StorageAfterSet(key, value).localStorage
          /\ memoryStorage' = StorageAfterSet(key, value).memoryStorage
          /\ lastSet' = [key |-> key, value |-> value,
                          returned |-> safeSetItem(key, value), changed |-> FALSE]
    /\ lastGet' = Pending
    /\ UNCHANGED <<localStorageWorks, localStorageRoom, themeVars, disclaimerVars>>
    /\ UNCHANGED OtherThanPrefs

CallSafeGetItem ==
    /\ lastGet = Pending
    /\ \E key \in StorageKeys :
          lastGet' = [key |-> key, returned |-> safeGetItem(key)]
    /\ UNCHANGED <<storageVars, lastSet, themeVars, disclaimerVars>>
    /\ UNCHANGED OtherThanPrefs

\* items are added to the platform's store, or removed from it, by others
LocalStorageRoomChange ==
    /\ localStorageRoom' = IF localStorageRoom = "ample" THEN "scant" ELSE "ample"
    /\ lastSet' = IF lastSet = Pending THEN lastSet ELSE [lastSet EXCEPT !.changed = TRUE]
    /\ UNCHANGED <<localStorage, localStorageWorks, memoryStorage, lastGet, themeVars>>
    /\ UNCHANGED disclaimerVars
    /\ UNCHANGED OtherThanPrefs

NextStorage ==
    \/ CallSafeSetItem
    \/ CallSafeGetItem
    \/ LocalStorageChange
    \/ LocalStorageRoomChange

SpecStorage == InitStorage /\ [][NextStorage]_vars

(***************************************************************************)
(* composables/useDisclaimer.ts, over the sessions of one browser          *)
(* (specification SpecDisclaimer).  A new session loads the modules anew:  *)
(* their state and the in-memory store start over, the platform's store    *)
(* is as the session before left it.                                       *)
(***************************************************************************)
\* isDisclaimerConfirmed reading the in-memory store only
isDisclaimerConfirmedInMemory ==
    StrictEq(memoryStorage[STORAGE_KEYS.DISCLAIMER_CONFIRMED], "true")

isDisclaimerConfirmed == StrictEq(safeGetItem(STORAGE_KEYS.DISCLAIMER_CONFIRMED), "true")

\* the computed shouldShowDisclaimer, for the values of the two refs
shouldShowDisclaimer(confirmed, visible) == ~confirmed /\ visible

\* the items a session may find under the key of the confirmation
FoundConfirmations == {JNull, JStr("true"), JStr("false"), JStr("")}

InitDisclaimer ==
    /\ AppInit
    /\ LoaderIdle
    /\ SearchIdle
    /\ GroupIdle
    /\ UrlIdle
    /\ DetailIdle
    /\ ThemeLoaded
    /\ StorageCallIdle
    /\ DisclaimerLoaded
    /\ confirmLog = NeverConfirmed
    /\ PageIdle
    /\ \E item \in FoundConfirmations :
          localStorage = [EmptyStorage EXCEPT ![STORAGE_KEYS.DISCLAIMER_CONFIRMED] = item]
    /\ localStorageWorks \in BOOLEAN
    /\ localStorageRoom = "ample"
    /\ memoryStorage = EmptyStorage

OtherThanDisclaimer == <<OtherThanPrefs, storageCallVars, themeVars>>

\* initDisclaimer, called by onMounted
initDisclaimer ==
    /\ ~disclaimerInitialized
    /\ disclaimerInitialized' = TRUE
    /\ hasConfirmed' = isDisclaimerConfirmed
    /\ isModalVisible' = IF ~isDisclaimerConfirmed THEN TRUE ELSE isModalVisible
    /\ UNCHANGED <<storageVars, confirmLog>>
    /\ UNCHANGED OtherThanDisclaimer

\* confirmDisclaimer without the call of setDisclaimerConfirmed
confirmDisclaimerWithoutWrite ==
    /\ shouldShowDisclaimer(hasConfirmed, isModalVisible)
    /\ hasConfirmed' = TRUE
    /\ isModalVisible' = FALSE
    /\ confirmLog' = [ever |-> TRUE, thisSession |-> TRUE,
                       persisted |-> confirmLog.persisted
                                       \/ safeSetItem(STORAGE_KEYS.DISCLAIMER_CONFIRMED, "true")]
    /\ UNCHANGED <<storageVars, disclaimerInitialized>>
    /\ UNCHANGED OtherThanDisclaimer

\* confirmDisclaimer, called on the confirm event of the modal on display
confirmDisclaimer ==
    /\ shouldShowDisclaimer(hasConfirmed, isModalVisible)
    /\ hasConfirmed' = TRUE
    /\ isModalVisible' = FALSE
    /\ localStorage' = StorageAfterSet(STORAGE_KEYS.DISCLAIMER_CONFIRMED, "true").localStorage
    /\ memoryStorage' = StorageAfterSet(STORAGE_KEYS.DISCLAIMER_CONFIRMED, "true").memoryStorage
    /\ confirmLog' = [ever |-> TRUE, thisSession |-> TRUE,
                       persisted |-> confirmLog.persisted
                                       \/ safeSetItem(STORAGE_KEYS.DISCLAIMER_CONFIRMED, "true")]
    /\ UNCHANGED <<localStorageWorks, localStorageRoom, disclaimerInitialized>>
    /\ UNCHANGED OtherThanDisclaimer

showDisclaimer ==
    /\ disclaimerInitialized
    /\ isModalVisible' = TRUE
    /\ UNCHANGED <<storageVars, hasConfirmed, disclaimerInitialized, confirmLog>>
    /\ UNCHANGED OtherThanDisclaimer

hideDisclaimer ==
    /\ disclaimerInitialized
    /\ isModalVisible' = FALSE
    /\ UNCHANGED <<storageVars, hasConfirmed, disclaimerInitialized, confirmLog>>
    /\ UNCHANGED OtherThanDisclaimer

\* the page is closed and opened again
NewSession ==
    /\ disclaimerInitialized
    /\ memoryStorage' = EmptyStorage
    /\ hasConfirmed' = FALSE
    /\ isModalVisible' = FALSE
    /\ disclaimerInitialized' = FALSE
    /\ confirmLog' = [confirmLog EXCEPT !.thisSession = FALSE]
    /\ themePreference' = "system"
    /\ systemPrefersDark' = FALSE
    /\ isInitialized' = FALSE
    /\ darkClass' = FALSE
    /\ themeRead' = Pending
    /\ themeCall' = Pending
    /\ UNCHANGED <<localStorage, localStorageWorks, localStorageRoom>>
    /\ UNCHANGED <<OtherThanPrefs, storageCallVars>>

NextDisclaimer ==
    \/ initDisclaimer
    \/ confirmDisclaimer
    \/ showDisclaimer
    \/ hideDisclaimer
    \/ LocalStorageChange
    \/ LocalStorageRoomChange
    \/ NewSession

SpecDisclaimer == InitDisclaimer /\ [][NextDisclaimer]_vars

(***************************************************************************)
(* components/SiteDetailPage.vue: the Markdown content of the site on      *)
(* display (specification SpecContent).  fetch and response.text() settle  *)
(* when the network lets them, in any order over the calls that wait.      *)
(***************************************************************************)
MaxFetches == 2

\* the sites the page is given: the fields content and contentType
DetailSites ==
    {[content |-> c, contentType |-> Undefined] : c \in {Undefined, JStr(""), JStr("# a")}}
      \cup {[content |-> JStr("# b"), contentType |-> JStr("text")]}
      \cup {[content |-> c, contentType |-> JStr("file")] :
                c \in {Undefined, JStr(""), JStr("a.md"), JStr("b.md")}}

\* the text the server has at an address
BodyOf(url) == IF url = "a.md" THEN "text of a.md" ELSE "text of b.md"

\* how a fetch may end: a response that is ok, a response that is not, a
\* rejection with an Error, a rejection with another value
FetchOutcomes == {"ok", "not ok", "Error", "other"}

\* the message shown for a fetch that did not end well
ContentErrorOf(outcome) ==
    CASE outcome = "not ok" -> "load failed: 404"
      [] outcome = "Error"  -> "Failed to fetch"
      [] OTHER              -> "loading the content failed"

OtherThanPage ==
    <<appVars, loaderVars, searchVars, groupVars, urlVars, detailVars, storageVars,
      themeVars, storageCallVars, disclaimerVars>>

\* loadContent fetching whatever is not marked as text
loadContentFileUnlessText(s) ==
    IF Falsy(s.content)
    THEN /\ markdownContent' = ""
         /\ UNCHANGED <<isLoadingContent, contentError, contentFetches>>
    ELSE IF ~StrictEq(s.contentType, "text")
    THEN /\ isLoadingContent' = TRUE
         /\ contentError' = ""
         /\ contentFetches' = Append(contentFetches, s.content.v)
         /\ UNCHANGED markdownContent
    ELSE /\ markdownContent' = s.content.v
         /\ UNCHANGED <<isLoadingContent, contentError, contentFetches>>

\* loadContent, up to its await or its end, for props.site = s
loadContent(s) ==
    IF Falsy(s.content)
    THEN /\ markdownContent' = ""
         /\ UNCHANGED <<isLoadingContent, contentError, contentFetches>>
    ELSE IF StrictEq(s.contentType, "file")
    THEN /\ isLoadingContent' = TRUE
         /\ contentError' = ""
         /\ contentFetches' = Append(contentFetches, s.content.v)
         /\ UNCHANGED markdownContent
    ELSE /\ markdownContent' = s.content.v
         /\ UNCHANGED <<isLoadingContent, contentError, contentFetches>>

InitContent ==
    /\ AppInit
    /\ LoaderIdle
    /\ SearchIdle
    /\ GroupIdle
    /\ UrlIdle
    /\ DetailIdle
    /\ PrefsIdle
    /\ PreviewIdle
    /\ propsSite \in DetailSites
    /\ detailMounted = FALSE
    /\ markdownContent = ""
    /\ isLoadingContent = FALSE
    /\ contentError = ""
    /\ contentFetches = <<>>

\* onMounted
DetailMounted ==
    /\ ~detailMounted
    /\ detailMounted' = TRUE
    /\ loadContent(propsSite)
    /\ UNCHANGED propsSite
    /\ UNCHANGED <<OtherThanPage, previewVars>>

\* the parent gives the page another site: the watcher of props.site
SiteChange ==
    /\ detailMounted
    /\ Len(contentFetches) < MaxFetches
    /\ \E s \in DetailSites \ {propsSite} :
          /\ propsSite' = s
          /\ loadContent(s)
    /\ UNCHANGED detailMounted
    /\ UNCHANGED <<OtherThanPage, previewVars>>

\* the rest of loadContent, for one of the calls that wait
FetchSettle ==
    /\ \E i \in 1..Len(contentFetches), outcome \in FetchOutcomes :
          /\ contentFetches' = [j \in 1..(Len(contentFetches) - 1) |->
                                   IF j < i THEN contentFetches[j] ELSE contentFetches[j + 1]]
          /\ IF outcome = "ok"
             THEN /\ markdownContent' = BodyOf(contentFetches[i])
                  /\ UNCHANGED contentError
             ELSE /\ contentError' = ContentErrorOf(outcome)
                  /\ markdownContent' = ""
    /\ isLoadingContent' = FALSE
    /\ UNCHANGED <<propsSite, detailMounted>>
    /\ UNCHANGED <<OtherThanPage, previewVars>>

NextContent ==
    \/ DetailMounted
    \/ SiteChange
    \/ FetchSettle

SpecContent == InitContent /\ [][NextContent]_vars

(***************************************************************************)
(* App.vue: the home view as the user edits the search box (specification  *)
(* SpecHome).  groupInput and groupByTag are the props sites and           *)
(* groupByTag that App.vue gives SiteCardGrid.                             *)
(***************************************************************************)
MaxHomeSites == 2

\* shouldGroupByTag testing the query as typed
shouldGroupByTagUntrimmed(query) == query = <<>>

\* the computed shouldGroupByTag, for searchQuery.value = query
shouldGroupByTag(query) == Trim(query) = <<>>

\* the sites of the cards SiteCardGrid renders, in the order of the page
GridCards(sitesArg, byTag) ==
    IF byTag
    THEN LET groups == groupedSites(sitesArg, byTag)
             upTo[g \in 0..Len(groups)] ==
                 IF g = 0 THEN <<>> ELSE upTo[g - 1] \o groups[g].sites
         IN  upTo[Len(groups)]
    ELSE sitesArg

\* an entry of the catalog, its searched texts sequences of characters
HomeEntry(i, tagList) ==
    JObj([id |-> JNum(i, 0), title |-> JStr(<<"a">>), cover |-> JStr(""),
          url |-> JStr("u"), description |-> JStr(<<"b", "b">>),
          tags |-> JArr([j \in DOMAIN tagList |-> JStr(tagList[j])])])

HomeCatalogs ==
    UNION {{[i \in 1..n |-> HomeEntry(i, t[i])] : t \in [1..n -> {<<>>, <<<<"b">>>>}]} :
              n \in 0..MaxHomeSites}

InitHome ==
    /\ siteConfig = DefaultStore.config
    /\ \E catalog \in HomeCatalogs :
          /\ sites = JArr(catalog)
          /\ groupInput = catalog
          /\ groupedSitesResult = [returned |-> groupedSites(catalog, TRUE)]
          /\ extractTagsResult = [returned |-> extractTags(catalog)]
    /\ groupByTag = TRUE
    /\ isLoading = FALSE
    /\ errorMessage = JNull
    /\ mounted = TRUE
    /\ inflight = <<>>
    /\ loadCount = 1
    /\ LoaderIdle
    /\ SearchIdle
    /\ UrlIdle
    /\ DetailIdle
    /\ PrefsIdle
    /\ PageIdle

\* the queries one edit of the search box makes of query
Edits(query) ==
    {Append(query, c) : c \in IF Len(query) < MaxQueryLen THEN Chars ELSE {}}
      \cup {SubSeq(query, 1, Len(query) - 1)}
      \cup {<<>>}

\* the user edits the search box: v-model, filteredSites, shouldGroupByTag
\* and the grid follow
SetSearchQuery ==
    /\ \E query \in Edits(searchQuery) \ {searchQuery} :
          \E fuseItems \in FuseOutcomes(sites.v, Trim(query)) :
             /\ searchQuery' = query
             /\ groupInput' = performSearch(query, sites.v, fuseItems)
             /\ groupByTag' = shouldGroupByTag(query)
             /\ groupedSitesResult' =
                   [returned |-> groupedSites(performSearch(query, sites.v, fuseItems),
                                              shouldGroupByTag(query))]
    /\ UNCHANGED <<searchData, searchSitesResult, performSearchResult, extractTagsResult>>
    /\ UNCHANGED appVars
    /\ UNCHANGED loaderVars
    /\ UNCHANGED <<urlVars, detailVars, storageVars, themeVars>>
    /\ UNCHANGED <<storageCallVars, disclaimerVars, pageVars>>

NextHome == SetSearchQuery

SpecHome == InitHome /\ [][NextHome]_vars

(***************************************************************************)
(* ImagePreview.vue: the image on display and the moves between the        *)
(* images (specification SpecPreview).  navigated is the sequence of the   *)
(* indices emitted with the navigate event.                                *)
(***************************************************************************)
MaxImages == 3

MaxNavigations == 3

\* the image lists the preview is given
ImageLists == UNION {[1..n -> {"a.png"}] : n \in 1..MaxImages}

hasPrev == activeIndex > 0

hasNext == activeIndex < Len(images) - 1

InitPreview ==
    /\ AppInit
    /\ LoaderIdle
    /\ SearchIdle
    /\ GroupIdle
    /\ UrlIdle
    /\ DetailIdle
    /\ PrefsIdle
    /\ ContentIdle
    /\ images \in ImageLists
    /\ activeIndex \in 0..(Len(images) - 1)
    /\ imageLoaded = FALSE
    /\ navigated = <<>>
    /\ previewCall = Pending

prevImage ==
    /\ Len(navigated) < MaxNavigations
    /\ previewCall' = [op |-> "prevImage", index |-> -1, from |-> activeIndex]
    /\ IF hasPrev
       THEN /\ activeIndex' = activeIndex - 1
            /\ imageLoaded' = FALSE
            /\ navigated' = Append(navigated, activeIndex - 1)
       ELSE UNCHANGED <<activeIndex, imageLoaded, navigated>>
    /\ UNCHANGED images
    /\ UNCHANGED <<OtherThanPage, contentVars>>

nextImage ==
    /\ Len(navigated) < MaxNavigations
    /\ previewCall' = [op |-> "nextImage", index |-> -1, from |-> activeIndex]
    /\ IF hasNext
       THEN /\ activeIndex' = activeIndex + 1
            /\ imageLoaded' = FALSE
            /\ navigated' = Append(navigated, activeIndex + 1)
       ELSE UNCHANGED <<activeIndex, imageLoaded, navigated>>
    /\ UNCHANGED images
    /\ UNCHANGED <<OtherThanPage, contentVars>>

\* goToImage without the test index < images.length
goToImageAtOrAboveZero(index) ==
    /\ Len(navigated) < MaxNavigations
    /\ previewCall' = [op |-> "goToImage", index |-> index, from |-> activeIndex]
    /\ IF index >= 0
       THEN /\ activeIndex' = index
            /\ imageLoaded' = FALSE
            /\ navigated' = Append(navigated, index)
       ELSE UNCHANGED <<activeIndex, imageLoaded, navigated>>
    /\ UNCHANGED images
    /\ UNCHANGED <<OtherThanPage, contentVars>>

goToImage(index) ==
    /\ Len(navigated) < MaxNavigations
    /\ previewCall' = [op |-> "goToImage", index |-> index, from |-> activeIndex]
    /\ IF index >= 0 /\ index < Len(images)
       THEN /\ activeIndex' = index
            /\ imageLoaded' = FALSE
            /\ navigated' = Append(navigated, index)
       ELSE UNCHANGED <<activeIndex, imageLoaded, navigated>>
    /\ UNCHANGED images
    /\ UNCHANGED <<OtherThanPage, contentVars>>

\* goToImage called with an index, in the range of the images or next to it
CallGoToImage == \E index \in -1..MaxImages : goToImage(index)

\* the load event of the image
handleImageLoad ==
    /\ ~imageLoaded
    /\ imageLoaded' = TRUE
    /\ UNCHANGED <<images, activeIndex, navigated, previewCall>>
    /\ UNCHANGED <<OtherThanPage, contentVars>>

NextPreview ==
    \/ prevImage
    \/ nextImage
    \/ CallGoToImage
    \/ handleImageLoad

SpecPreview == InitPreview /\ [][NextPreview]_vars

(***************************************************************************)
(* Properties of the catalog store (specifications Spec and SpecLoads).    *)
(***************************************************************************)
\* the step is the return of the suspended call l
Returns(l) ==
    /\ l \in DOMAIN inflight
    /\ inflight[l].result # Pending
    /\ inflight' = RemoveAt(inflight, l)

\* C1: a loadData call whose loadSiteData result is a failure (NETWORK_ERROR,
\* PARSE_ERROR or VALIDATION_ERROR) returns with siteConfig and sites exactly
\* as they were when the call started, be that a loaded snapshot or the
\* initial empty catalog.
C1_FailedLoadKeepsStore ==
    [][\A l \in DOMAIN inflight :
          (Returns(l) /\ ~inflight[l].result.success)
              => /\ inflight[l].result.error.type
                        \in {"NETWORK_ERROR", "PARSE_ERROR", "VALIDATION_ERROR"}
                 /\ siteConfig' = inflight[l].before.config
                 /\ sites' = inflight[l].before.sites]_vars

\* a failed load has returned while a loaded snapshot was in the store
C1_Witness ==
    /\ inflight = <<>>
    /\ ~isLoading
    /\ errorMessage # JNull
    /\ Store # DefaultStore
    /\ Len(sites.v) > 0

\* the documents that pass validation in full
ValidDocs == {d \in DocsWithin(1) : validateSiteDataFile(d).valid}

\* C2: in every reachable state siteConfig and sites are the config and the
\* sites of one and the same document that passed validation, or are both
\* the initial defaults.
C2_StoreIsOneValidDocument ==
    \/ Store = DefaultStore
    \/ \E d \in ValidDocs :
          /\ siteConfig = Prop(d, "config")
          /\ sites = Prop(d, "sites")

\* a second load has replaced the snapshot of a first one
C2_Witness ==
    /\ inflight = <<>>
    /\ loadCount >= 2
    /\ errorMessage = JNull
    /\ Store # DefaultStore
    /\ Len(sites.v) = MaxSites
    /\ Prop(siteConfig, "siteTitle") = JStr("")

\* C8: a loadData call whose loadSiteData result is a success returns with
\* the store holding the config and sites of that result, no error message
\* and isLoading false; and whenever a load has failed the retry is offered
\* (unless the bound on loads is reached), the retry being a fresh call of
\* loadData.
C8_RetryAfterFailureSucceeds ==
    /\ [][\A l \in DOMAIN inflight :
             (Returns(l) /\ inflight[l].result.success)
                 => /\ siteConfig' = Prop(inflight[l].result.data, "config")
                    /\ sites' = Prop(inflight[l].result.data, "sites")
                    /\ errorMessage' = JNull
                    /\ isLoading' = FALSE]_vars
    /\ []((inflight = <<>> /\ errorMessage # JNull /\ loadCount < MaxLoads)
             => ENABLED RetryLoad)
    /\ [][(loadCount' > loadCount /\ loadCount > 0)
             => /\ inflight' = <<[result |-> Pending, before |-> Store]>>
                /\ isLoading'
                /\ errorMessage' = JNull]_vars

\* a retry after a failed load has succeeded
C8_Witness ==
    /\ loadCount >= 2
    /\ inflight = <<>>
    /\ ~isLoading
    /\ errorMessage = JNull
    /\ Store # DefaultStore

(***************************************************************************)
(* Properties of the loader and the validators (specification SpecLoader). *)
(***************************************************************************)
ErrorTypeOf(result) == IF result.success THEN "none" ELSE result.error.type

\* C3: loadSiteData returns exactly one of four outcomes: NETWORK_ERROR when
\* fetch rejects or the HTTP status is not a success (the message then holds
\* the status code), PARSE_ERROR when the status is a success and json()
\* rejects, VALIDATION_ERROR when the parsed value fails validateSiteDataFile,
\* and success with the parsed value otherwise.
C3_LoadOutcomes ==
    loadResult # Pending =>
        /\ ErrorTypeOf(loadResult)
               \in {"none", "NETWORK_ERROR", "PARSE_ERROR", "VALIDATION_ERROR"}
        /\ ErrorTypeOf(loadResult) = "NETWORK_ERROR"
               <=> (response.fetch = "rejected" \/ response.status \notin 200..299)
        /\ (response.fetch = "resolved" /\ response.status \notin 200..299)
               => (/\ ErrorTypeOf(loadResult) = "NETWORK_ERROR"
                   /\ loadResult.error.message.text = "HTTP error"
                   /\ loadResult.error.message.status = response.status)
        /\ ErrorTypeOf(loadResult) = "PARSE_ERROR"
               <=> (/\ response.fetch = "resolved"
                    /\ response.status \in 200..299
                    /\ response.body.json = "rejected")
        /\ ErrorTypeOf(loadResult) = "VALIDATION_ERROR"
               <=> (HasJson(response) /\ ~validateSiteDataFile(response.body.value).valid)
        /\ loadResult.success
               <=> (HasJson(response) /\ validateSiteDataFile(response.body.value).valid)
        /\ loadResult.success => loadResult.data = response.body.value

\* an HTTP failure that carries a well-formed body was reported as NETWORK_ERROR
C3_Witness ==
    /\ loadResult # Pending
    /\ response.fetch = "resolved"
    /\ response.status = 404
    /\ response.body.json = "resolved"
    /\ ErrorTypeOf(loadResult) = "NETWORK_ERROR"

\* C4 (as claimed): when validation fails because config lacks a string
\* siteTitle, the VALIDATION_ERROR's field names config.siteTitle.
C4_FieldNamesOffendingPath ==
    (/\ loadResult # Pending
     /\ HasJson(response)
     /\ TypeOf(response.body.value) = "object"
     /\ ~Falsy(response.body.value)
     /\ Prop(response.body.value, "config").t = "object"
     /\ TypeOf(Prop(Prop(response.body.value, "config"), "siteTitle")) # "string")
        => /\ ErrorTypeOf(loadResult) = "VALIDATION_ERROR"
           /\ loadResult.error.field = "config.siteTitle"

\* the checks on entry `site` at 0-based index i0, in the claimed order, each
\* with the result validation gives when it is the first to fail
SiteChecks(site, i0) ==
    LET Report(e) == Fail([text |-> "site validation failed", index |-> i0, cause |-> e])
        NotString(f) == [failed |-> Prop(site, f).t # "string",
                         result |-> Report([text |-> "field must be a string", field |-> f])]
    IN  << [failed |-> site.t \notin {"object", "array"},
            result |-> Report([text |-> "site data must be an object"])],
           [failed |-> Prop(site, "id").t # "number",
            result |-> Report([text |-> "field id must be a number"])],
           NotString("title"),
           NotString("cover"),
           NotString("url"),
           NotString("description"),
           [failed |-> Prop(site, "tags").t # "array",
            result |-> Report([text |-> "field tags must be an array"])],
           [failed |-> /\ Prop(site, "tags").t = "array"
                       /\ \E j \in DOMAIN Prop(site, "tags").v :
                             Prop(site, "tags").v[j].t # "string",
            result |-> Report([text |-> "every element of field tags must be a string"])],
           [failed |-> Prop(site, "content").t \notin {"undefined", "string"},
            result |-> Report([text |-> "field content must be a string"])],
           [failed |-> /\ Prop(site, "contentType").t # "undefined"
                       /\ ~(/\ Prop(site, "contentType").t = "string"
                            /\ Prop(site, "contentType").v \in {"text", "file"}),
            result |-> Report([text |-> "field contentType must be text or file"])] >>

RECURSIVE EntryChecks(_, _)
EntryChecks(arr, k) ==
    IF k > Len(arr) THEN <<>>
    ELSE SiteChecks(arr[k], k - 1) \o EntryChecks(arr, k + 1)

\* all checks on a document, in the claimed order
ChecksOf(data) ==
    LET config == Prop(data, "config")
        InConfig(e) == Fail([text |-> "config validation failed", cause |-> e])
    IN  << [failed |-> data.t \notin {"object", "array"},
            result |-> Fail([text |-> "data file must be an object"])],
           [failed |-> config.t \notin {"object", "array"},
            result |-> InConfig([text |-> "config data must be an object"])],
           [failed |-> Prop(config, "siteTitle").t # "string",
            result |-> InConfig([text |-> "field siteTitle must be a string"])],
           [failed |-> Prop(config, "adminContact").t # "string",
            result |-> InConfig([text |-> "field adminContact must be a string"])],
           [failed |-> Prop(data, "sites").t # "array",
            result |-> Fail([text |-> "sites must be an array"])] >>
        \o (IF Prop(data, "sites").t = "array"
            THEN EntryChecks(Prop(data, "sites").v, 1) ELSE <<>>)

FailedChecks(data) == {k \in DOMAIN ChecksOf(data) : ChecksOf(data)[k].failed}

Minimum(S) == CHOOSE m \in S : \A n \in S : m <= n

\* C5: validation reports the single reason of the earliest failing check in
\* the order top-level shape, config (siteTitle, then adminContact), sites
\* is an array, then the entries by index and within an entry id, title,
\* cover, url, description, tags, content, contentType; it reports success
\* when no check fails.
C5_FirstFailureReported ==
    (validation # Pending /\ HasJson(response)) =>
        LET data == response.body.value
        IN  IF FailedChecks(data) = {}
            THEN validation = Ok
            ELSE validation = ChecksOf(data)[Minimum(FailedChecks(data))].result

\* a document whose two entries both have a defect was validated, and the
\* reported reason is that of the first entry
C5_Witness ==
    /\ validation # Pending
    /\ HasJson(response)
    /\ \E k1 \in 6..15, k2 \in 16..25 :
          /\ {k1, k2} \subseteq FailedChecks(response.body.value)
          /\ validation = ChecksOf(response.body.value)[k1].result

\* the entries of a document whose sites is an array
EntriesOf(data) ==
    IF Prop(data, "sites").t = "array" THEN Prop(data, "sites").v ELSE <<>>

\* C6 (as claimed): a document with an entry whose id is not an integer (a
\* non-integer number, or not a number) is rejected.
C6_IdMustBeInteger ==
    (validation # Pending /\ HasJson(response)) =>
        ((\E i \in DOMAIN EntriesOf(response.body.value) :
             ~IsInteger(Prop(EntriesOf(response.body.value)[i], "id")))
            => ~validation.valid)

\* C6 (amended): a document with an entry whose id is not a number is
\* rejected; an id that is a number, integer or not, is never the reported
\* reason of a rejection.
C6_IdMustBeNumber ==
    (validation # Pending /\ HasJson(response)) =>
        LET entries == EntriesOf(response.body.value)
        IN  /\ (\E i \in DOMAIN entries : Prop(entries[i], "id").t # "number")
                  => ~validation.valid
            /\ \A i \in DOMAIN entries :
                  validation = Fail([text |-> "site validation failed", index |-> i - 1,
                                     cause |-> [text |-> "field id must be a number"]])
                      => Prop(entries[i], "id").t # "number"

\* a document whose only defect is an entry id that is a string was rejected
C6_Witness ==
    /\ validation # Pending
    /\ HasJson(response)
    /\ \E i \in DOMAIN EntriesOf(response.body.value) :
          /\ Prop(EntriesOf(response.body.value)[i], "id") = JStr("1")
          /\ validation = Fail([text |-> "site validation failed", index |-> i - 1,
                                cause |-> [text |-> "field id must be a number"]])
          /\ Cardinality(FailedChecks(response.body.value)) = 1

\* C7: validateSiteDataFile succeeds exactly when the input is an object
\* whose config is an object with string siteTitle and adminContact, whose
\* sites is an array and whose every entry passes validateSiteMetadata; a
\* document that succeeds is handed on by loadSiteData as it is.
C7_ValidExactlyWhenWellFormed ==
    /\ (validation # Pending /\ HasJson(response)) =>
          LET data == response.body.value
          IN  validation.valid
                 <=> /\ data.t = "object"
                     /\ Prop(data, "config").t = "object"
                     /\ Prop(Prop(data, "config"), "siteTitle").t = "string"
                     /\ Prop(Prop(data, "config"), "adminContact").t = "string"
                     /\ Prop(data, "sites").t = "array"
                     /\ \A i \in DOMAIN Prop(data, "sites").v :
                           validateSiteMetadata(Prop(data, "sites").v[i]).valid
    /\ (validation # Pending /\ validation.valid /\ loadResult # Pending)
          => /\ loadResult.success
             /\ loadResult.data = response.body.value

\* a document with empty strings in config and an empty sites array succeeded
C7_Witness ==
    /\ validation = Ok
    /\ loadResult # Pending
    /\ loadResult.success
    /\ Prop(loadResult.data, "sites") = JArr(<<>>)
    /\ Prop(Prop(loadResult.data, "config"), "siteTitle") = JStr("")
    /\ Prop(Prop(loadResult.data, "config"), "adminContact") = JStr("")

(***************************************************************************)
(* Properties of the search functions (specification SpecSearch).          *)
(***************************************************************************)
IsBlank(str) == \A j \in DOMAIN str : str[j] \in WhiteSpace

\* C9: for a query that is empty or all white space, searchSites and
\* performSearch return the entries they were given: the same entries in the
\* same order.
C9_BlankQueryReturnsInput ==
    IsBlank(searchQuery) =>
        /\ searchSitesResult # Pending => searchSitesResult.returned = searchData
        /\ performSearchResult # Pending => performSearchResult.returned = searchData

\* a white-space query was searched in a catalog of several entries
C9_Witness ==
    /\ searchQuery # <<>>
    /\ IsBlank(searchQuery)
    /\ Len(searchData) >= 2
    /\ searchSitesResult # Pending
    /\ performSearchResult # Pending

\* C10: for every query, blank or not, searchSites and performSearch of an
\* empty entry sequence return the empty sequence.
C10_EmptyEntriesGiveEmptyResult ==
    searchData = <<>> =>
        /\ searchSitesResult # Pending => searchSitesResult.returned = <<>>
        /\ performSearchResult # Pending => performSearchResult.returned = <<>>

\* a non-blank query and a blank one were searched in an empty entry sequence
C10_Witness ==
    /\ searchData = <<>>
    /\ ~IsBlank(searchQuery)
    /\ searchSitesResult = [returned |-> <<>>]
    /\ performSearchResult = [returned |-> <<>>]

\* the entry is among those of a returned result
Among(entry, result) == \E j \in DOMAIN result.returned : result.returned[j] = entry

\* C11: every entry whose title equals the query character for character,
\* white space at its ends included, is among the entries searchSites and
\* performSearch return for that query, whatever the other entries are.
C11_ExactTitleIsFound ==
    \A i \in DOMAIN searchData :
        Prop(searchData[i], "title").v = searchQuery =>
            /\ searchSitesResult # Pending => Among(searchData[i], searchSitesResult)
            /\ performSearchResult # Pending => Among(searchData[i], performSearchResult)

\* a query with white space at both ends was searched among two entries, the
\* second one titled as the query and found by its title alone, the first
\* one not returned
C11_Witness ==
    /\ Len(searchQuery) = MaxQueryLen
    /\ Head(searchQuery) \in WhiteSpace
    /\ searchQuery[Len(searchQuery)] \in WhiteSpace
    /\ Trim(searchQuery) = <<"a">>
    /\ Len(searchData) = 2
    /\ Prop(searchData[1], "title").v # searchQuery
    /\ Prop(searchData[2], "title").v = searchQuery
    /\ searchSitesResult = [returned |-> <<searchData[2]>>]
    /\ performSearchResult = [returned |-> <<searchData[2]>>]

(***************************************************************************)
(* Properties of the grouping (specification SpecGroup).                   *)
(***************************************************************************)
\* C12: with grouping off, groupedSites is exactly one group, named by
\* AllKey, that holds every input entry, those with no tag included, in
\* input order.
C12_UngroupedIsOneGroupOfAll ==
    (~groupByTag /\ groupedSitesResult # Pending) =>
        /\ Len(groupedSitesResult.returned) = 1
        /\ groupedSitesResult.returned[1].key = AllKey
        /\ groupedSitesResult.returned[1].sites = groupInput

\* the ungrouped view was computed for entries the first of which has no tag
C12_Witness ==
    /\ ~groupByTag
    /\ groupedSitesResult # Pending
    /\ Len(groupInput) = MaxGroupSites
    /\ Prop(groupInput[1], "tags").v = <<>>
    /\ Prop(groupInput[2], "tags").v # <<>>

\* the tags of the entry at position i of the input
TagsOf(i) == Prop(groupInput[i], "tags").v

\* the places [g, j] of the result that hold the entry at position i
PlacesOf(i) ==
    {pl \in {<<g, j>> : g \in DOMAIN groupedSitesResult.returned, j \in 1..MaxGroupSites + 1} :
        /\ pl[2] \in DOMAIN groupedSitesResult.returned[pl[1]].sites
        /\ groupedSitesResult.returned[pl[1]].sites[pl[2]] = groupInput[i]}

\* C13: with grouping on, every entry that has a tag is held once, by the
\* one group whose key is its first tag; an entry with no tag is held by no
\* group; and each group holds its entries in their input order.
C13_GroupedByPrimaryTag ==
    (groupByTag /\ groupedSitesResult # Pending) =>
        /\ \A i \in DOMAIN groupInput :
              IF TagsOf(i) = <<>>
              THEN PlacesOf(i) = {}
              ELSE /\ Cardinality(PlacesOf(i)) = 1
                   /\ \A pl \in PlacesOf(i) :
                         groupedSitesResult.returned[pl[1]].key = TagsOf(i)[1].v
        /\ \A g \in DOMAIN groupedSitesResult.returned :
              LET held == groupedSitesResult.returned[g].sites
              IN  /\ held # <<>>
                  /\ held = SelectSeq(groupInput,
                                LAMBDA e : \E j \in DOMAIN held : held[j] = e)

\* the grouped view was computed for an entry of two tags, an entry with no
\* tag and an entry whose first tag is the first tag of the first one
C13_Witness ==
    /\ groupByTag
    /\ groupedSitesResult # Pending
    /\ Len(groupInput) = 3
    /\ Len(TagsOf(1)) = 2
    /\ TagsOf(2) = <<>>
    /\ TagsOf(3) = <<TagsOf(1)[1]>>
    /\ Len(groupedSitesResult.returned) = 1
    /\ groupedSitesResult.returned[1].sites = <<groupInput[1], groupInput[3]>>

\* the least position of the input whose first tag is key
FirstWith(key) ==
    CHOOSE i \in DOMAIN groupInput :
        /\ TagsOf(i) # <<>> /\ TagsOf(i)[1].v = key
        /\ \A k \in 1..(i - 1) : TagsOf(k) = <<>> \/ TagsOf(k)[1].v # key

\* C14: with grouping on, the keys of the groups are distinct and stand in
\* the order in which they first appear as first tag in the input; entries
\* tagged [a], [b], [a, c] give the groups a: [e1, e3] and b: [e2], in that
\* order.
C14_KeysInFirstAppearanceOrder ==
    (groupByTag /\ groupedSitesResult # Pending) =>
        /\ \A g, h \in DOMAIN groupedSitesResult.returned :
              g < h => FirstWith(groupedSitesResult.returned[g].key)
                          < FirstWith(groupedSitesResult.returned[h].key)
        /\ (/\ Len(groupInput) = 3
            /\ TagsOf(1) = <<JStr("a")>>
            /\ TagsOf(2) = <<JStr("b")>>
            /\ TagsOf(3) = <<JStr("a"), JStr("c")>>)
              => groupedSitesResult.returned =
                    <<[key |-> "a", sites |-> <<groupInput[1], groupInput[3]>>],
                      [key |-> "b", sites |-> <<groupInput[2]>>]>>

\* the grouped view was computed for entries tagged [b], [a], [b]: the group
\* of b stands before the group of a
C14_Witness ==
    /\ groupByTag
    /\ groupedSitesResult # Pending
    /\ Len(groupInput) = 3
    /\ TagsOf(1) = <<JStr("b")>>
    /\ TagsOf(2) = <<JStr("a")>>
    /\ TagsOf(3) = <<JStr("b")>>
    /\ Len(groupedSitesResult.returned) = 2
    /\ groupedSitesResult.returned[1].key = "b"

(***************************************************************************)
(* Properties of the URL utilities (specifications SpecUrl, SpecDetail).   *)
(***************************************************************************)
OnDenyList(name) == \E k \in DOMAIN TRACKING_PARAMS : TRACKING_PARAMS[k] = name

\* the parameters of a url that parses, names and values decoded
ParamsOf(url) == ParseQuery(url.query)

\* C15: for every string that parses as a URL, the parameters of what
\* cleanTrackingParams returns are those of the input whose name is not on
\* the deny-list, each with its value and in their input order (so every
\* occurrence of a listed name is gone), and scheme, host, path and fragment
\* are those of the input; https://a.com/?utm_source=x&keep=1 gives
\* https://a.com/?keep=1.
C15_RemovesListedKeepsOthers ==
    (Parses(urlInput) /\ cleanResult # Pending) =>
        LET out == cleanResult.returned
        IN  /\ Parses(out)
            /\ ParamsOf(out)
                  = SelectSeq(ParamsOf(urlInput), LAMBDA pair : ~OnDenyList(pair.name))
            /\ NewURL(out).origin = NewURL(urlInput).origin
            /\ NewURL(out).path = NewURL(urlInput).path
            /\ out.fragment = urlInput.fragment
            /\ urlInput = Url("https://a.com", "/",
                              <<Piece("utm_source", TRUE, "x"), Piece("keep", TRUE, "1")>>, "")
                  => out = Url("https://a.com", "/", <<Piece("keep", TRUE, "1")>>, "")

\* cleanTrackingParams has returned https://a.com/?keep=1 for
\* https://a.com/?utm_source=x&keep=1
C15_Witness ==
    /\ urlInput = Url("https://a.com", "/",
                      <<Piece("utm_source", TRUE, "x"), Piece("keep", TRUE, "1")>>, "")
    /\ cleanResult = [returned |-> Url("https://a.com", "/", <<Piece("keep", TRUE, "1")>>, "")]

\* C16: for every string that parses as a URL, cleanTrackingParams of what
\* cleanTrackingParams returned is that same string.
C16_CleanIsIdempotent ==
    (Parses(urlInput) /\ cleanResult # Pending) =>
        cleanTrackingParams(cleanResult.returned) = cleanResult.returned

\* cleanTrackingParams has returned a string other than its input, a listed
\* name removed and a value spelled anew
C16_Witness ==
    /\ Parses(urlInput)
    /\ cleanResult # Pending
    /\ hasTrackingParams(urlInput)
    /\ Len(ParamsOf(cleanResult.returned)) = 1
    /\ \E j \in DOMAIN urlInput.query :
          /\ urlInput.query[j].value # Encoded(Decoded(urlInput.query[j].value))
          /\ cleanResult.returned.query[1].value = Encoded(Decoded(urlInput.query[j].value))

\* C17 as claimed: for every string that parses as a URL, hasTrackingParams
\* returns true exactly when cleanTrackingParams returns a string other than
\* its input.
C17_HasTrackingIffCleanDiffers ==
    (Parses(urlInput) /\ cleanResult # Pending /\ hasTrackingResult # Pending) =>
        (hasTrackingResult.returned <=> cleanResult.returned # urlInput)

\* C17 as it holds: for every string that parses as a URL, hasTrackingParams
\* returns true exactly when a parameter of the URL has a name on the
\* deny-list, which is exactly when cleanTrackingParams removes a parameter;
\* and when it returns true, cleanTrackingParams returns a string other
\* than its input.
C17_HasTrackingIffParameterRemoved ==
    (Parses(urlInput) /\ cleanResult # Pending /\ hasTrackingResult # Pending) =>
        /\ hasTrackingResult.returned
              <=> \E j \in DOMAIN ParamsOf(urlInput) : OnDenyList(ParamsOf(urlInput)[j].name)
        /\ hasTrackingResult.returned
              <=> Len(ParamsOf(cleanResult.returned)) < Len(ParamsOf(urlInput))
        /\ hasTrackingResult.returned => cleanResult.returned # urlInput

\* both functions were called on a URL whose only listed name is spelled
\* with a percent-encoded character: hasTrackingParams returned true and
\* cleanTrackingParams removed the parameter
C17_Witness ==
    /\ Parses(urlInput)
    /\ Len(urlInput.query) = 2
    /\ urlInput.query[1].name = "utm%5Fsource"
    /\ urlInput.query[2].name = "keep"
    /\ hasTrackingResult = [returned |-> TRUE]
    /\ cleanResult # Pending
    /\ Len(ParamsOf(cleanResult.returned)) = 1

\* C18: for every string that does not parse as a URL, cleanTrackingParams
\* returns the string itself and hasTrackingParams returns false, neither
\* of them raising.
C18_InvalidUrlUntouched ==
    ~Parses(urlInput) =>
        /\ cleanResult # Pending => cleanResult = [returned |-> urlInput]
        /\ hasTrackingResult # Pending => hasTrackingResult = [returned |-> FALSE]

\* both functions were called on a relative reference that names a listed
\* parameter
C18_Witness ==
    /\ urlInput = Text("/p?utm_source=x")
    /\ cleanResult = [returned |-> urlInput]
    /\ hasTrackingResult = [returned |-> FALSE]

\* C19: whichever way the detail page opens the site, by the visit button or
\* by the site-address link, the URL opened bears no parameter of the
\* deny-list.
C19_OpenedUrlIsClean ==
    opened # Pending => ~hasTrackingParams(opened.target)

(***************************************************************************)
(* Properties of the preferences (specification SpecTheme).                *)
(***************************************************************************)
\* the item is the string of a theme preference
IsThemeItem(item) == \E preference \in ThemePreferences : item = JStr(preference)

\* preference is what is to be read where item is stored
ReadsAs(preference, item) ==
    /\ preference \in ThemePreferences
    /\ IsThemeItem(item) => preference = item.v
    /\ ~IsThemeItem(item) => preference = "system"

\* C20: the theme preference read from the store, by getThemePreference
\* called on its own or by initTheme, is one of light, dark and system: the
\* item stored under the key where that is one of the three, and system
\* where there is no item or any other item.  The store read is the
\* platform's where it takes calls and the in-memory one where it does not.
C20_ThemeReadIsAPreference ==
    /\ [](themePreference \in ThemePreferences)
    /\ [](themeRead # Pending => ReadsAs(themeRead.returned, themeRead.item))
    /\ [][(isInitialized' /\ ~isInitialized)
            => ReadsAs(themePreference', safeGetItem(STORAGE_KEYS.THEME_PREFERENCE))]_vars

\* initTheme has run on a store that held an item that is no preference, and
\* getThemePreference has read that item as system
C20_Witness ==
    /\ isInitialized
    /\ localStorage[STORAGE_KEYS.THEME_PREFERENCE] = JStr("blue")
    /\ themePreference = "system"
    /\ themeRead = [returned |-> "system", item |-> JStr("blue")]

\* C21: a call of safeSetItem returns true with the value written to the
\* platform's store and the in-memory store left alone, or false with the
\* value written to the in-memory store and the platform's store left
\* alone, the latter whenever the platform's store is unavailable or its
\* setItem throws; and a call of safeGetItem for the key of the last
\* safeSetItem, the availability of the platform's store unchanged since
\* that write, returns the value written.
C21_BestEffortStorage ==
    /\ [][\A key \in StorageKeys, value \in SetValues :
            (/\ lastSet' # lastSet
             /\ lastSet' # Pending
             /\ ~lastSet'.changed
             /\ lastSet'.key = key
             /\ lastSet'.value = value)
               => /\ SetItemThrows(key, value) => ~lastSet'.returned
                  /\ lastSet'.returned
                        => /\ localStorage'[key] = JStr(value)
                           /\ memoryStorage' = memoryStorage
                  /\ ~lastSet'.returned
                        => /\ memoryStorage'[key] = JStr(value)
                           /\ localStorage' = localStorage]_vars
    /\ []((/\ lastSet # Pending
            /\ lastGet # Pending
            /\ lastGet.key = lastSet.key
            /\ ~lastSet.changed)
              => lastGet.returned = JStr(lastSet.value))

(***************************************************************************)
(* Properties of the disclaimer (specification SpecDisclaimer).            *)
(***************************************************************************)
\* a step of initDisclaimer that initializes
InitDisclaimerStep == ~disclaimerInitialized /\ disclaimerInitialized'

\* C22 as stated: an initialization that reads no confirmation shows the
\* modal, and once confirmDisclaimer has run, in whatever session, no later
\* initialization shows the modal.
C22_ConfirmationOutlivesSession ==
    [][InitDisclaimerStep
         => /\ ~isDisclaimerConfirmed
                 => shouldShowDisclaimer(hasConfirmed', isModalVisible')
            /\ confirmLog.ever
                 => ~shouldShowDisclaimer(hasConfirmed', isModalVisible')]_vars

\* C22, amended: an initialization that reads no confirmation shows the
\* modal; confirmDisclaimer run while the platform's store is available
\* leaves the confirmation in that store, and no later initialization that
\* finds the store available shows the modal.
C22_PersistedConfirmationOutlivesSession ==
    /\ [][InitDisclaimerStep
            => /\ ~isDisclaimerConfirmed
                    => shouldShowDisclaimer(hasConfirmed', isModalVisible')
               /\ (confirmLog.persisted /\ localStorageWorks)
                    => ~shouldShowDisclaimer(hasConfirmed', isModalVisible')]_vars
    /\ [][(~confirmLog.thisSession /\ confirmLog'.thisSession /\ localStorageWorks)
            => /\ confirmLog'.persisted
               /\ localStorage'[STORAGE_KEYS.DISCLAIMER_CONFIRMED] = JStr("true")]_vars

\* a later session, initialized with the store available after a confirmation
\* that was persisted, does not show the modal
C22_Witness ==
    /\ confirmLog.persisted
    /\ ~confirmLog.thisSession
    /\ disclaimerInitialized
    /\ localStorageWorks
    /\ memoryStorage = EmptyStorage
    /\ ~shouldShowDisclaimer(hasConfirmed, isModalVisible)

\* C25: after showDisclaimer is called the modal is on display, also when the
\* user has confirmed already.
C25_ShowDisclaimerDisplaysModal ==
    [][(/\ disclaimerInitialized
        /\ isModalVisible'
        /\ UNCHANGED <<hasConfirmed, disclaimerInitialized, confirmLog, storageVars>>)
          => shouldShowDisclaimer(hasConfirmed', isModalVisible')]_vars

(***************************************************************************)
(* Properties of toggleTheme (specification SpecTheme).                    *)
(***************************************************************************)
\* a step of toggleTheme
ToggleThemeStep == themeCall' # Pending /\ themeCall' # themeCall

\* C24 as stated: after toggleTheme the preference is light or dark,
\* isDarkMode is the negation of what it was, and the platform's store
\* holds the new preference.
C24_ToggleNegatesAndPersists ==
    [][ToggleThemeStep
         => /\ themePreference' \in {"light", "dark"}
            /\ isDarkMode(themePreference', systemPrefersDark')
                  = ~isDarkMode(themePreference, systemPrefersDark)
            /\ localStorage'[STORAGE_KEYS.THEME_PREFERENCE] = JStr(themePreference')]_vars

\* C24, amended: after toggleTheme the preference is light or dark,
\* isDarkMode is the negation of what it was, and the new preference is in
\* the platform's store when that store is available, in the in-memory
\* fallback when it is not.
C24_ToggleNegatesAndStores ==
    [][ToggleThemeStep
         => /\ themePreference' \in {"light", "dark"}
            /\ isDarkMode(themePreference', systemPrefersDark')
                  = ~isDarkMode(themePreference, systemPrefersDark)
            /\ darkClass' = ~themeCall'.wasDark
            /\ localStorageWorks
                  => localStorage'[STORAGE_KEYS.THEME_PREFERENCE] = JStr(themePreference')
            /\ ~localStorageWorks
                  => /\ memoryStorage'[STORAGE_KEYS.THEME_PREFERENCE] = JStr(themePreference')
                     /\ localStorage' = localStorage]_vars

\* toggleTheme has turned a dark system setting, followed until then, to light
C24_Witness ==
    /\ themeCall = [wasDark |-> TRUE]
    /\ systemPrefersDark
    /\ themePreference = "light"
    /\ localStorage[STORAGE_KEYS.THEME_PREFERENCE] = JStr("light")
    /\ ~darkClass

(***************************************************************************)
(* Properties of the content of the detail page (specification             *)
(* SpecContent).                                                           *)
(***************************************************************************)
\* a step that calls loadContent: the mount, or a change of the site
LoadContentStep == (~detailMounted /\ detailMounted') \/ propsSite' # propsSite

\* C23: loadContent uses the content of a site without contentType as the
\* Markdown text and fetches nothing, fetches only for contentType file, and
\* gives a site without content the empty Markdown.
C23_ContentTypeDefaultsToText ==
    [][LoadContentStep
         => /\ (propsSite'.content # Undefined /\ propsSite'.contentType = Undefined)
                 => /\ markdownContent' = propsSite'.content.v
                    /\ contentFetches' = contentFetches
            /\ contentFetches' # contentFetches
                 => /\ StrictEq(propsSite'.contentType, "file")
                    /\ contentFetches' = Append(contentFetches, propsSite'.content.v)
            /\ propsSite'.content = Undefined
                 => /\ markdownContent' = ""
                    /\ contentFetches' = contentFetches]_vars

\* the content of a site without contentType is on display, nothing fetched
C23_Witness ==
    /\ detailMounted
    /\ propsSite = [content |-> JStr("# a"), contentType |-> Undefined]
    /\ markdownContent = "# a"
    /\ contentFetches = <<>>
    /\ ~isLoadingContent

\* what the page may show for a site when nothing is in flight
ContentsOf(s) ==
    IF Falsy(s.content) THEN {""}
    ELSE IF StrictEq(s.contentType, "file") THEN {BodyOf(s.content.v), ""}
    ELSE {s.content.v}

\* C28: once every fetch has settled, the Markdown on display is that of
\* the site the page shows now.
C28_SettledContentIsOfCurrentSite ==
    (detailMounted /\ contentFetches = <<>>) => markdownContent \in ContentsOf(propsSite)

(***************************************************************************)
(* Properties of the home view (specification SpecHome).                   *)
(***************************************************************************)
\* C26: the grid is grouped by tag exactly when the trimmed query is empty;
\* then the search hands the catalog over as it is, whatever Fuse would
\* find; with a query that is not blank the grid shows every entry the
\* search returned, the entries without tags included.
C26_GroupedExactlyWhenNotSearching ==
    /\ groupByTag <=> Trim(searchQuery) = <<>>
    /\ groupByTag
         => /\ groupInput = sites.v
            /\ \A fuseItems \in FuseOutcomes(sites.v, Trim(searchQuery)) :
                  performSearch(searchQuery, sites.v, fuseItems) = sites.v
    /\ ~groupByTag
         => /\ groupInput \in FuseOutcomes(sites.v, Trim(searchQuery)) \cup {<<>>}
            /\ groupedSitesResult.returned = <<[key |-> AllKey, sites |-> groupInput]>>
            /\ GridCards(groupInput, groupByTag) = groupInput

\* a search has found an entry without tags, and the grid shows it
C26_Witness ==
    /\ Trim(searchQuery) # <<>>
    /\ ~groupByTag
    /\ \E i \in DOMAIN groupInput :
          /\ Prop(groupInput[i], "tags").v = <<>>
          /\ \E c \in DOMAIN GridCards(groupInput, groupByTag) :
                GridCards(groupInput, groupByTag)[c] = groupInput[i]
          /\ \A c \in DOMAIN GridCards(groupInput, TRUE) :
                GridCards(groupInput, TRUE)[c] # groupInput[i]

(***************************************************************************)
(* Properties of the loads of the application (specification Spec).        *)
(***************************************************************************)
\* a load starts only with the mount or with a click on the retry button,
\* which is there only when isLoading is false and an error message is set
LoadsStartOnMountOrRetry ==
    [][loadCount' # loadCount
         => \/ ~mounted /\ mounted'
            \/ mounted /\ ~isLoading /\ errorMessage # JNull]_vars

\* C27 as stated: loads start only on mount or retry, at most one call of
\* loadData is in flight, and isLoading is true exactly while one is.
C27_LoadingExactlyWhileInFlight ==
    /\ LoadsStartOnMountOrRetry
    /\ [](Len(inflight) <= 1)
    /\ [](isLoading <=> inflight # <<>>)

\* C27, amended: loads start only on mount or retry, at most one call of
\* loadData is in flight, and from the mount on isLoading is true exactly
\* while one is; before the mount isLoading is true and no load is in flight.
C27_LoadingExactlyWhileInFlightOnceMounted ==
    /\ LoadsStartOnMountOrRetry
    /\ [](Len(inflight) <= 1)
    /\ [](mounted => (isLoading <=> inflight # <<>>))
    /\ [](~mounted => (isLoading /\ inflight = <<>>))

\* a load started by the retry button is in flight
C27_Witness ==
    /\ mounted
    /\ loadCount >= 2
    /\ Len(inflight) = 1
    /\ isLoading
    /\ errorMessage = JNull

(***************************************************************************)
(* Properties of the tag navigator (specification SpecGroup).              *)
(***************************************************************************)
\* the keys of a Map, in its order
KeysOf(groups) == [g \in DOMAIN groups |-> groups[g].key]

\* C29: extractTags of a catalog is, element for element and in the same
\* order, the sequence of the keys of the groups of the same catalog with
\* grouping on; no tag is there twice.
C29_NavigatorTagsAreGroupKeys ==
    (groupByTag /\ groupedSitesResult # Pending /\ extractTagsResult # Pending)
        => /\ extractTagsResult.returned = KeysOf(groupedSitesResult.returned)
           /\ \A a, b \in DOMAIN extractTagsResult.returned :
                 a # b => extractTagsResult.returned[a] # extractTagsResult.returned[b]

\* tags and groups of a catalog with an untagged entry, a repeated primary
\* tag and a secondary tag
C29_Witness ==
    /\ groupByTag
    /\ groupedSitesResult # Pending
    /\ extractTagsResult = [returned |-> <<"b", "a">>]
    /\ Len(groupInput) = 3
    /\ \E i \in DOMAIN groupInput : Prop(groupInput[i], "tags").v = <<>>
    /\ \E i \in DOMAIN groupInput : Len(Prop(groupInput[i], "tags").v) = 2

(***************************************************************************)
(* Properties of the image preview (specification SpecPreview).            *)
(***************************************************************************)
\* a call that found nothing to do: prevImage at the first image, nextImage
\* at the last, goToImage with an index out of the range
IdleCall(call) ==
    \/ call.op = "prevImage" /\ call.from = 0
    \/ call.op = "nextImage" /\ call.from = Len(images) - 1
    \/ call.op = "goToImage" /\ (call.index < 0 \/ call.index > Len(images) - 1)

\* C30: activeIndex stays within 0..images.length-1 under prevImage,
\* nextImage and goToImage, and a call of prevImage at the first image, of
\* nextImage at the last or of goToImage with an index out of the range
\* changes nothing and emits no navigate event.
C30_ActiveIndexStaysInRange ==
    /\ [](activeIndex \in 0..(Len(images) - 1))
    /\ [][(previewCall' # previewCall /\ IdleCall(previewCall'))
            => UNCHANGED <<activeIndex, imageLoaded, navigated, images>>]_vars

\* after moves that were emitted, goToImage was called with the index one
\* past the last image, and nothing changed
C30_Witness ==
    /\ previewCall = [op |-> "goToImage", index |-> Len(images), from |-> activeIndex]
    /\ Len(images) = MaxImages
    /\ Len(navigated) = 2
    /\ navigated[2] = activeIndex
    /\ imageLoaded

=============================================================================
